---- MODULE Spec2Model ----
(***************************************************************************)
(* Form Architect AI: the generated Form, its export to the forms platform *)
(* (Mode A, direct API calls; Mode B, generated Apps Script) and the App   *)
(* and export-modal state around it.                                       *)
(*                                                                         *)
(* Representation.  A JavaScript object is a record that has exactly the   *)
(* keys whose value is not undefined.  A JavaScript string is a sequence   *)
(* of characters (one-character strings).  Generated text (the script) is  *)
(* a sequence of tokens: the pieces of the source's template literals are  *)
(* tokens of several characters, every interpolated string contributes its *)
(* characters one by one.  correctAnswer is [str |-> s] for a string and   *)
(* [arr |-> seq] for an array.                                             *)
(***************************************************************************)
EXTENDS Integers, Sequences, FiniteSets, TLC

VARIABLES
    \* App (src/unnamed/part_000)
    \* generating: the calls of generateFormFromText in flight
    generatedForm, isLoading, appError, isModalOpen, generating,
    \* GoogleFormModal (src/GoogleFormModal.tsx), the mounted instance
    isConfigured, status, error, formUrl, isGsiLoaded,
    appsScript, copied, copyTimer, clipboard,
    \* the sign-in and createForm started by the mounted modal, and those
    \* still in flight that were started by modals since unmounted
    run, orphans,
    \* the export mapper applied to one Form (pure functions)
    mForm, mRequests, mScript,
    \* generateFormFromText (src/unnamed/part_001): what the latest call of
    \* the model gave, the locals computed from it, and the Form returned or
    \* the message thrown
    response, jsonStr, sanitizedJsonStr, result,
    \* InputPanel (src/InputPanel.tsx), and the locals of processFile
    inputText, isProcessingFile, processingMessage, fileProcessingError, pf

appVars    == <<generatedForm, isLoading, appError, isModalOpen, generating>>
genVars    == <<response, jsonStr, sanitizedJsonStr, result>>
inputVars  == <<inputText, isProcessingFile, processingMessage,
                fileProcessingError, pf>>
modalVars  == <<isConfigured, status, error, formUrl, isGsiLoaded,
                appsScript, copied, copyTimer, clipboard, run, orphans>>
mapperVars == <<mForm, mRequests, mScript>>
vars       == <<appVars, modalVars, mapperVars, genVars, inputVars>>

----------------------------------------------------------------------------
(* Bounds *)

\* longest Form whose item order is explored
MaxItems == 3
\* how many sign-ins or createForm calls of unmounted modals are in flight
MaxOrphans == 1

----------------------------------------------------------------------------
(* Item schema *)

SHORT_ANSWER    == "SHORT_ANSWER"
PARAGRAPH       == "PARAGRAPH"
MULTIPLE_CHOICE == "MULTIPLE_CHOICE"
CHECKBOXES      == "CHECKBOXES"
DROPDOWN        == "DROPDOWN"
SECTION_HEADER  == "SECTION_HEADER"

ItemType == {SHORT_ANSWER, PARAGRAPH, MULTIPLE_CHOICE, CHECKBOXES, DROPDOWN,
             SECTION_HEADER}

\* the object with no keys
EmptyObject == [k \in {} |-> TRUE]

Has(obj, key) == key \in DOMAIN obj

\* Array.prototype.map
Map(Op(_), seq) == [i \in 1..Len(seq) |-> Op(seq[i])]

\* Array.prototype.reverse
Reverse(seq) == [i \in 1..Len(seq) |-> seq[Len(seq) + 1 - i]]

\* Array.prototype.includes
Includes(seq, x) == \E i \in 1..Len(seq) : seq[i] = x

RECURSIVE Flatten(_)
\* the concatenation of a sequence of sequences
Flatten(seqs) ==
    IF seqs = <<>> THEN <<>> ELSE Head(seqs) \o Flatten(Tail(seqs))

RECURSIVE Join(_, _)
\* Array.prototype.join on token sequences, with separator token sep
Join(seqs, sep) ==
    IF seqs = <<>> THEN <<>>
    ELSE IF Len(seqs) = 1 THEN Head(seqs)
    ELSE Head(seqs) \o <<sep>> \o Join(Tail(seqs), sep)

----------------------------------------------------------------------------
(* JavaScript values of a FormItem *)

\* item.required as a condition, !!item.required
Required(item) == Has(item, "required") /\ item.required

\* item.points || 0
PointsOrZero(item) == IF Has(item, "points") THEN item.points ELSE 0

\* item.correctAnswer as a condition: a non-empty string, or any array
TruthyAnswer(item) ==
    /\ Has(item, "correctAnswer")
    /\ (Has(item.correctAnswer, "arr") \/ item.correctAnswer.str # <<>>)

\* Array.isArray(item.correctAnswer)
IsArrayAnswer(item) ==
    Has(item, "correctAnswer") /\ Has(item.correctAnswer, "arr")

\* item.options || []
OptionsOrEmpty(item) == IF Has(item, "options") THEN item.options ELSE <<>>

----------------------------------------------------------------------------
(* Mode A: the batch-update requests *)

\* the value null
JsNull == [null |-> TRUE]

\* Boolean(v) for a value that is an object or null
Boolean(v) == ~Has(v, "null")

\* Grading without the test points > 0
Grading_AnyPoints(item) ==
    IF Has(item, "points") /\ TruthyAnswer(item)
    THEN LET answers == IF IsArrayAnswer(item)
                        THEN item.correctAnswer.arr
                        ELSE <<item.correctAnswer.str>>
         IN  [grading |->
                [pointValue |-> item.points,
                 correctAnswers |->
                    [answers |-> Map(LAMBDA value : [value |-> value], answers)]]]
    ELSE EmptyObject

\* the grading block, as an object with the key grading or without it
Grading(item) ==
    IF Has(item, "points") /\ item.points > 0 /\ TruthyAnswer(item)
    THEN LET answers == IF IsArrayAnswer(item)
                        THEN item.correctAnswer.arr
                        ELSE <<item.correctAnswer.str>>
         IN  [grading |->
                [pointValue |-> item.points,
                 correctAnswers |->
                    [answers |-> Map(LAMBDA value : [value |-> value], answers)]]]
    ELSE EmptyObject

\* the question object before the switch: required and grading
Question(item) ==
    (IF Required(item) THEN [required |-> TRUE] ELSE EmptyObject) @@ Grading(item)

\* the PARAGRAPH case reusing the graded question object
ParagraphQuestion_Graded(item) ==
    Question(item) @@ [textQuestion |-> [paragraph |-> TRUE]]

\* the PARAGRAPH case builds its own question object
ParagraphQuestion(item) ==
    (IF Required(item) THEN [required |-> TRUE] ELSE EmptyObject)
        @@ [textQuestion |-> [paragraph |-> TRUE]]

\* ChoiceType with the test for CHECKBOXES lost
ChoiceType_Swapped(item) ==
    IF item.type = MULTIPLE_CHOICE THEN "RADIO" ELSE "DROP_DOWN"

ChoiceType(item) ==
    IF item.type = MULTIPLE_CHOICE THEN "RADIO"
    ELSE IF item.type = CHECKBOXES THEN "CHECKBOX" ELSE "DROP_DOWN"

ChoiceQuestion(item) ==
    [type |-> ChoiceType(item),
     options |-> Map(LAMBDA opt : [value |-> opt], OptionsOrEmpty(item))]

\* { createItem: { item, location: { index: 0 } } }
CreateItem(itemObject) ==
    [createItem |-> [item |-> itemObject, location |-> [index |-> 0]]]

mapItemToApiRequest(item) ==
    CASE item.type = SHORT_ANSWER ->
            CreateItem([title |-> item.title] @@
                [questionItem |-> [question |->
                    Question(item) @@ [textQuestion |-> [paragraph |-> FALSE]]]])
      [] item.type = PARAGRAPH ->
            CreateItem([title |-> item.title] @@
                [questionItem |-> [question |-> ParagraphQuestion(item)]])
      [] item.type \in {MULTIPLE_CHOICE, CHECKBOXES, DROPDOWN} ->
            CreateItem([title |-> item.title] @@
                [questionItem |-> [question |->
                    Question(item) @@ [choiceQuestion |-> ChoiceQuestion(item)]]])
      [] item.type = SECTION_HEADER ->
            CreateItem([title |-> item.title] @@
                (IF Has(item, "description")
                 THEN [description |-> item.description] ELSE EmptyObject) @@
                [textItem |-> EmptyObject])
      [] OTHER -> JsNull

\* body of the shell-creation call
formRequestBody(form) ==
    [info |-> [title |-> form.title, documentTitle |-> form.title]]

quizSettingsRequest ==
    [updateSettings |->
        [settings |-> [quizSettings |-> [isQuiz |-> TRUE]],
         updateMask |-> "quizSettings.isQuiz"]]

\* itemRequests without the final reverse()
itemRequests_NoReverse(form) ==
    SelectSeq(Map(mapItemToApiRequest, form.items), Boolean)

\* form.items.map(mapItemToApiRequest).filter(Boolean).reverse()
itemRequests(form) ==
    Reverse(SelectSeq(Map(mapItemToApiRequest, form.items), Boolean))

descriptionUpdateRequest(form) ==
    [updateFormInfo |->
        [info |-> [description |-> form.description],
         updateMask |-> "description"]]

\* allRequests with the description update first
allRequests_DescriptionFirst(form) ==
    <<descriptionUpdateRequest(form), quizSettingsRequest>> \o itemRequests(form)

allRequests(form) ==
    <<quizSettingsRequest>> \o itemRequests(form) \o <<descriptionUpdateRequest(form)>>

\* body of the batchUpdate call
batchUpdateBody(form) ==
    [requests |-> allRequests(form), includeFormInResponse |-> FALSE]

----------------------------------------------------------------------------
(* Mode B: the generated Apps Script *)

\* one character of a string inside a JSON string literal
EscapeChar(c) ==
    IF c = "\"" THEN <<"\\", "\"">>
    ELSE IF c = "\\" THEN <<"\\", "\\">>
    ELSE IF c = "\n" THEN <<"\\", "n">>
    ELSE <<c>>

\* JSON.stringify of a string: the quoted, escaped literal
JSONstringify(s) == <<"\"">> \o Flatten(Map(EscapeChar, s)) \o <<"\"">>

\* `${b}` for a boolean
BoolText(b) == IF b THEN "true" ELSE "false"

\* item.correctAnswer is a non-empty string
IsStringAnswer(item) ==
    /\ Has(item, "correctAnswer")
    /\ Has(item.correctAnswer, "str")
    /\ item.correctAnswer.str # <<>>

\* hasAnswerKey that only tests that correctAnswer is there
hasAnswerKey_PresentOnly(item) == Has(item, "correctAnswer")
hasAnswerKey(item) ==
    /\ Has(item, "correctAnswer")
    /\ IF Has(item.correctAnswer, "arr")
       THEN Len(item.correctAnswer.arr) > 0
       ELSE item.correctAnswer.str # <<>>

isCorrect(item, option) ==
    /\ Has(item, "correctAnswer")
    /\ IF Has(item.correctAnswer, "arr")
       THEN Includes(item.correctAnswer.arr, option)
       ELSE item.correctAnswer.str = option

\* itemTypeMap with DROPDOWN given the multiple-choice constructor
itemTypeMap_ListAsMultipleChoice(type) ==
    CASE type = MULTIPLE_CHOICE -> "addMultipleChoiceItem"
      [] type = CHECKBOXES -> "addCheckboxItem"
      [] type = DROPDOWN -> "addMultipleChoiceItem"

itemTypeMap(type) ==
    CASE type = MULTIPLE_CHOICE -> "addMultipleChoiceItem"
      [] type = CHECKBOXES -> "addCheckboxItem"
      [] type = DROPDOWN -> "addListItem"

\* `item.createChoice(${JSON.stringify(option)}, ${isCorrect})`
Choice(item, option) ==
    <<"item.createChoice(">> \o JSONstringify(option)
        \o <<", ", BoolText(isCorrect(item, option)), ")">>

\* `\n  item.setPoints(${points});`
SetPoints(points) == <<"\n  ", "item.setPoints(", ToString(points), ");">>

ShortAnswerSetup(item) ==
    <<"  var item = form.", "addTextItem", "().setTitle(">> \o JSONstringify(item.title)
        \o <<").setRequired(", BoolText(Required(item)), ");">>
        \o (IF PointsOrZero(item) > 0
            THEN SetPoints(PointsOrZero(item))
                 \o <<"\n\n  // --- IMPORTANT: MANUAL STEP REQUIRED FOR THE QUESTION ABOVE ---",
                      "\n  // Google Apps Script does not allow setting the correct answer for 'Short Answer' questions automatically.">>
                 \o (IF IsStringAnswer(item)
                     THEN <<"\n  // You must set this in the Google Forms editor. The suggested correct answer is: ">>
                          \o JSONstringify(item.correctAnswer.str)
                     ELSE <<"\n  // You must set the correct answer manually in the Google Forms editor.">>)
                 \o <<"\n  // -------------------------------------------------------------">>
            ELSE <<>>)

ParagraphSetup(item) ==
    <<"  form.", "addParagraphTextItem", "().setTitle(">> \o JSONstringify(item.title)
        \o <<").setRequired(", BoolText(Required(item)), ");">>

ChoiceSetup(item) ==
    <<"  var item = form.", itemTypeMap(item.type), "().setTitle(">>
        \o JSONstringify(item.title)
        \o <<").setRequired(", BoolText(Required(item)), ");">>
        \o <<"\n  ", "item.setChoices([">>
        \o Join(Map(LAMBDA option : Choice(item, option), OptionsOrEmpty(item)), ", ")
        \o <<"]);">>
        \o (IF PointsOrZero(item) > 0 THEN SetPoints(PointsOrZero(item)) ELSE <<>>)
        \o (IF PointsOrZero(item) > 0 /\ ~hasAnswerKey(item)
            THEN <<"\n  // AI WARNING: This question was assigned points, but the AI did not identify a correct answer. Please set the answer manually in the Form editor.">>
            ELSE <<>>)

SectionHeaderSetup(item) ==
    <<"  form.", "addSectionHeaderItem", "().setTitle(">> \o JSONstringify(item.title)
        \o <<").setHelpText(">>
        \o JSONstringify(IF Has(item, "description") THEN item.description ELSE <<>>)
        \o <<");">>

\* the default case: type and title are interpolated as they are
UnsupportedSetup(item) ==
    <<"  // Unsupported item type: ", item.type, " for item \"">> \o item.title \o <<"\"">>

\* the callback of form.items.map in generateAppsScript
itemSetup(item) ==
    CASE item.type = SHORT_ANSWER -> ShortAnswerSetup(item)
      [] item.type = PARAGRAPH -> ParagraphSetup(item)
      [] item.type \in {MULTIPLE_CHOICE, DROPDOWN, CHECKBOXES} -> ChoiceSetup(item)
      [] item.type = SECTION_HEADER -> SectionHeaderSetup(item)
      [] OTHER -> UnsupportedSetup(item)

\* form.items.map(...).join('\n\n')
formItems(form) == Join(Map(itemSetup, form.items), "\n\n")

generateAppsScript(form) ==
    <<"function createFormFromAI() {\n  /* \n   * How to use this script:\n   * 1. Go to script.google.com/create in your browser.\n   * 2. Paste this entire code into the editor, replacing any existing content.\n   * 3. Click the \"Save project\" icon (floppy disk).\n   * 4. Click the \"Run\" button.\n   * 5. Google will ask for permission. Click \"Review permissions\" and \"Allow\".\n   * 6. After it runs, click \"View\" > \"Executions\" to see the links to your new form.\n   *\n   * NOTE: Some items, like answers for text questions, may require manual setup.\n   * Please review the generated form and script comments carefully.\n  */\n  \n  try {\n",
      "    var form = FormApp.create(">>
        \o JSONstringify(form.title)
        \o <<");\n    form.setDescription(">>
        \o JSONstringify(form.description)
        \o <<");\n    ", "form.setIsQuiz(true);", " // Make it a quiz!\n\n">>
        \o formItems(form)
        \o <<"\n\n    Logger.log('Form created successfully!');\n    Logger.log('View your form here: ' + form.getPublishedUrl());\n    Logger.log('Edit your form here: ' + form.getEditUrl());\n  } catch (e) {\n    Logger.log('Error creating form: ' + e.toString());\n  }\n}">>

----------------------------------------------------------------------------
(* Generation: the text of the model's response, its repair and parsing *)

\* the characters \s matches, among those of the texts explored
Whitespace == {" ", "\n", "\t", "\r"}

\* the characters \w matches
WordChars ==
    {
     "a", "b", "c", "d", "e", "f", "g", "h", "i", "j", "k", "l", "m", "n", "o", "p",
     "q", "r", "s", "t", "u", "v", "w", "x", "y", "z", "A", "B", "C", "D", "E", "F",
     "G", "H", "I", "J", "K", "L", "M", "N", "O", "P", "Q", "R", "S", "T", "U", "V",
     "W", "X", "Y", "Z", "0", "1", "2", "3", "4", "5", "6", "7", "8", "9", "_"}

Digits == <<"0", "1", "2", "3", "4", "5", "6", "7", "8", "9">>

IsDigit(c) == \E d \in 1..10 : Digits[d] = c

\* the digit c as a number
DigitValue(c) == (CHOOSE d \in 1..10 : Digits[d] = c) - 1

\* the first index from i on that holds no whitespace (Len(text) + 1 if none)
SkipWhitespace(text, i) ==
    IF \E j \in i..Len(text) : text[j] \notin Whitespace
    THEN CHOOSE j \in i..Len(text) :
            /\ text[j] \notin Whitespace
            /\ \A k \in i..(j - 1) : text[k] \in Whitespace
    ELSE Len(text) + 1

\* String.prototype.trim
Trim(text) ==
    LET first == SkipWhitespace(text, 1)
        last  == IF first > Len(text) THEN 0
                 ELSE CHOOSE j \in first..Len(text) :
                        /\ text[j] \notin Whitespace
                        /\ \A k \in (j + 1)..Len(text) : text[k] \in Whitespace
    IN  SubSeq(text, first, last)

\* the backquote character (a TLA+ string cannot hold one)
Backquote == "BACKQUOTE"

\* the three backquotes of a fence
Fence == <<Backquote, Backquote, Backquote>>

\* text[i..] matches the end of fenceRegex, /^\n?\s*FENCE$/
MatchesClosingFence(text, i) ==
    LET j == SkipWhitespace(text, i)
    IN  j + 2 = Len(text) /\ SubSeq(text, j, j + 2) = Fence

\* jsonStr.match(/^FENCE(\w*)?\s*\n?(.*?)\n?\s*FENCE$/s): no match, or the
\* second group.  \w* and \s* are greedy and never have to give back (a
\* backquote is neither a word character nor whitespace), the second group
\* is lazy: it ends at the first index from which the closing fence matches.
fenceRegex(text) ==
    IF Len(text) < 6 \/ SubSeq(text, 1, 3) # Fence
    THEN [matched |-> FALSE]
    ELSE LET afterTag ==
                IF \E j \in 4..Len(text) : text[j] \notin WordChars
                THEN CHOOSE j \in 4..Len(text) :
                        /\ text[j] \notin WordChars
                        /\ \A k \in 4..(j - 1) : text[k] \in WordChars
                ELSE Len(text) + 1
             start == SkipWhitespace(text, afterTag)
             ends  == {e \in start..Len(text) : MatchesClosingFence(text, e)}
         IN  IF ends = {} THEN [matched |-> FALSE]
             ELSE LET end == CHOOSE e \in ends : \A f \in ends : e <= f
                  IN  [matched |-> TRUE, group2 |-> SubSeq(text, start, end - 1)]

\* mutant: the second group is taken even when it is empty
RemoveFences_AnyMatch(text) ==
    LET trimmed == Trim(text)
        match   == fenceRegex(trimmed)
    IN  IF match.matched THEN Trim(match.group2) ELSE trimmed

\* step 1 of generateFormFromText: response.text.trim(), then the fences
RemoveFences(text) ==
    LET trimmed == Trim(text)
        match   == fenceRegex(trimmed)
    IN  IF match.matched /\ match.group2 # <<>> THEN Trim(match.group2) ELSE trimmed

\* mutant: the lookahead without its whitespace
IsTrailingComma_Adjacent(text, i) ==
    /\ text[i] = ","
    /\ i + 1 <= Len(text) /\ text[i + 1] \in {"}", "]"}

\* the comma at index i matches /,(?=\s*?[}\]])/
IsTrailingComma(text, i) ==
    /\ text[i] = ","
    /\ LET j == SkipWhitespace(text, i + 1)
       IN  j <= Len(text) /\ text[j] \in {"}", "]"}

RECURSIVE RemoveTrailingCommasIn(_, _, _)
\* text[from..to] without the commas that match
RemoveTrailingCommasIn(text, from, to) ==
    IF from > to THEN <<>>
    ELSE IF from = to
         THEN IF IsTrailingComma(text, from) THEN <<>> ELSE <<text[from]>>
         ELSE LET middle == (from + to) \div 2
              IN  RemoveTrailingCommasIn(text, from, middle)
                    \o RemoveTrailingCommasIn(text, middle + 1, to)

\* jsonStr.replace(/,(?=\s*?[}\]])/g, '')
sanitizeJsonString(text) == RemoveTrailingCommasIn(text, 1, Len(text))

\* a parse that fails
NoParse == [ok |-> FALSE]

\* the character an escape denotes (of the escapes \" \\ \/ \n \t \r)
EscapedChar(c) ==
    CASE c = "n" -> "\n" [] c = "t" -> "\t" [] c = "r" -> "\r" [] OTHER -> c

RECURSIVE ParseStringFrom(_, _)
\* JSON.parse on the characters of a string literal, from the index after
\* its opening quote: the string, and the index after the closing quote
ParseStringFrom(text, i) ==
    IF i > Len(text) \/ text[i] \in {"\n", "\t", "\r"} THEN NoParse
    ELSE IF text[i] = "\"" THEN [ok |-> TRUE, value |-> <<>>, next |-> i + 1]
    ELSE IF text[i] = "\\"
         THEN IF i = Len(text) \/ text[i + 1] \notin {"\"", "\\", "/", "n", "t", "r"}
              THEN NoParse
              ELSE LET rest == ParseStringFrom(text, i + 2)
                   IN  IF rest.ok
                       THEN [rest EXCEPT !.value = <<EscapedChar(text[i + 1])>> \o @]
                       ELSE NoParse
         ELSE LET rest == ParseStringFrom(text, i + 1)
              IN  IF rest.ok THEN [rest EXCEPT !.value = <<text[i]>> \o @] ELSE NoParse

RECURSIVE DigitsValue(_, _, _)
\* the number text[i..j] writes
DigitsValue(text, i, j) ==
    IF j < i THEN 0 ELSE DigitsValue(text, i, j - 1) * 10 + DigitValue(text[j])

\* JSON.parse on a number (of the numbers without sign, fraction or
\* exponent): no leading zero
ParseNumberFrom(text, i) ==
    LET end == IF \E j \in i..Len(text) : ~IsDigit(text[j])
               THEN CHOOSE j \in i..Len(text) :
                        ~IsDigit(text[j]) /\ \A k \in i..(j - 1) : IsDigit(text[k])
               ELSE Len(text) + 1
    IN  IF text[i] = "0" /\ end > i + 1 THEN NoParse
        ELSE [ok |-> TRUE, value |-> [num |-> DigitsValue(text, i, end - 1)], next |-> end]

TrueText  == <<"t", "r", "u", "e">>
FalseText == <<"f", "a", "l", "s", "e">>
NullText  == <<"n", "u", "l", "l">>

\* text holds word from index i
StartsWith(text, i, word) ==
    i + Len(word) - 1 <= Len(text) /\ SubSeq(text, i, i + Len(word) - 1) = word

RECURSIVE ParseValueFrom(_, _)
RECURSIVE ParseMembersFrom(_, _, _)
RECURSIVE ParseElementsFrom(_, _, _)

\* JSON.parse on a value that starts at or after index from.  A value is
\* [str |-> characters], [num |-> n], [bool |-> b], JsNull,
\* [arr |-> values] or [obj |-> <<[key, value], ...>>]
ParseValueFrom(text, from) ==
    LET i == SkipWhitespace(text, from)
    IN  IF i > Len(text) THEN NoParse
        ELSE IF text[i] = "{"
             THEN LET j == SkipWhitespace(text, i + 1)
                  IN  IF j <= Len(text) /\ text[j] = "}"
                      THEN [ok |-> TRUE, value |-> [obj |-> <<>>], next |-> j + 1]
                      ELSE ParseMembersFrom(text, j, <<>>)
        ELSE IF text[i] = "["
             THEN LET j == SkipWhitespace(text, i + 1)
                  IN  IF j <= Len(text) /\ text[j] = "]"
                      THEN [ok |-> TRUE, value |-> [arr |-> <<>>], next |-> j + 1]
                      ELSE ParseElementsFrom(text, j, <<>>)
        ELSE IF text[i] = "\""
             THEN LET s == ParseStringFrom(text, i + 1)
                  IN  IF s.ok THEN [s EXCEPT !.value = [str |-> @]] ELSE NoParse
        ELSE IF IsDigit(text[i]) THEN ParseNumberFrom(text, i)
        ELSE IF StartsWith(text, i, TrueText)
             THEN [ok |-> TRUE, value |-> [bool |-> TRUE], next |-> i + 4]
        ELSE IF StartsWith(text, i, FalseText)
             THEN [ok |-> TRUE, value |-> [bool |-> FALSE], next |-> i + 5]
        ELSE IF StartsWith(text, i, NullText)
             THEN [ok |-> TRUE, value |-> JsNull, next |-> i + 4]
        ELSE NoParse

\* the members of an object from index i (no whitespace at i), after those
\* already read, up to its closing brace
ParseMembersFrom(text, i, members) ==
    IF i > Len(text) \/ text[i] # "\"" THEN NoParse
    ELSE LET key == ParseStringFrom(text, i + 1)
         IN  IF ~key.ok THEN NoParse
             ELSE LET colon == SkipWhitespace(text, key.next)
                  IN  IF colon > Len(text) \/ text[colon] # ":" THEN NoParse
                      ELSE LET v == ParseValueFrom(text, colon + 1)
                           IN  IF ~v.ok THEN NoParse
                               ELSE LET all == Append(members, [key |-> key.value, value |-> v.value])
                                        j   == SkipWhitespace(text, v.next)
                                    IN  IF j > Len(text) THEN NoParse
                                        ELSE IF text[j] = "}"
                                             THEN [ok |-> TRUE, value |-> [obj |-> all], next |-> j + 1]
                                        ELSE IF text[j] = ","
                                             THEN ParseMembersFrom(text, SkipWhitespace(text, j + 1), all)
                                        ELSE NoParse

\* the elements of an array from index i, after those already read, up to
\* its closing bracket
ParseElementsFrom(text, i, elements) ==
    LET v == ParseValueFrom(text, i)
    IN  IF ~v.ok THEN NoParse
        ELSE LET all == Append(elements, v.value)
                 j   == SkipWhitespace(text, v.next)
             IN  IF j > Len(text) THEN NoParse
                 ELSE IF text[j] = "]"
                      THEN [ok |-> TRUE, value |-> [arr |-> all], next |-> j + 1]
                 ELSE IF text[j] = ","
                      THEN ParseElementsFrom(text, j + 1, all)
                 ELSE NoParse

\* JSON.parse(text): the value, or a SyntaxError (ok is FALSE)
JSONparse(text) ==
    LET v == ParseValueFrom(text, 1)
    IN  IF v.ok /\ SkipWhitespace(text, v.next) > Len(text)
        THEN [ok |-> TRUE, value |-> v.value]
        ELSE NoParse

\* the characters of the names the Form schema is written with
CharsOf ==
    [title |-> <<"t", "i", "t", "l", "e">>,
     description |->
        <<"d", "e", "s", "c", "r", "i", "p", "t", "i", "o", "n">>,
     items |-> <<"i", "t", "e", "m", "s">>,
     type |-> <<"t", "y", "p", "e">>,
     options |-> <<"o", "p", "t", "i", "o", "n", "s">>,
     points |-> <<"p", "o", "i", "n", "t", "s">>,
     correctAnswer |->
        <<"c", "o", "r", "r", "e", "c", "t", "A", "n", "s", "w", "e", "r">>,
     required |-> <<"r", "e", "q", "u", "i", "r", "e", "d">>,
     SHORT_ANSWER |->
        <<"S", "H", "O", "R", "T", "_", "A", "N", "S", "W", "E", "R">>,
     PARAGRAPH |-> <<"P", "A", "R", "A", "G", "R", "A", "P", "H">>,
     MULTIPLE_CHOICE |->
        <<"M", "U", "L", "T", "I", "P", "L", "E", "_", "C", "H", "O", "I", "C", "E">>,
     CHECKBOXES |->
        <<"C", "H", "E", "C", "K", "B", "O", "X", "E", "S">>,
     DROPDOWN |-> <<"D", "R", "O", "P", "D", "O", "W", "N">>,
     SECTION_HEADER |->
        <<"S", "E", "C", "T", "I", "O", "N", "_", "H", "E", "A", "D", "E", "R">>,
     GRID |-> <<"G", "R", "I", "D">>]

\* value has a property of its own called key (an object's member)
HasProperty(value, key) ==
    /\ Has(value, "obj")
    /\ \E m \in 1..Len(value.obj) : value.obj[m].key = key

\* value[key]: of members with the same key JSON.parse keeps the last
Property(value, key) ==
    LET last == CHOOSE m \in 1..Len(value.obj) :
                    /\ value.obj[m].key = key
                    /\ \A k \in (m + 1)..Len(value.obj) : value.obj[k].key # key
    IN  value.obj[last].value

\* !!value
Truthy(value) ==
    CASE Has(value, "str") -> value.str # <<>>
      [] Has(value, "num") -> value.num # 0
      [] Has(value, "bool") -> value.bool
      [] Has(value, "null") -> FALSE
      [] OTHER -> TRUE

\* the strings of an array of strings
Strings(values) == [i \in 1..Len(values) |-> values[i].str]

\* the type a parsed type name stands for
TypeNamed(chars) ==
    CHOOSE type \in ItemType \cup {"GRID"} : CharsOf[type] = chars

\* a field of a parsed item, as the Form schema holds it
FormItemField(key, value) ==
    CASE key = "type" -> TypeNamed(value.str)
      [] key \in {"title", "description"} -> value.str
      [] key = "options" -> Strings(value.arr)
      [] key = "points" -> value.num
      [] key = "required" -> value.bool
      [] key = "correctAnswer" ->
            IF Has(value, "arr") THEN [arr |-> Strings(value.arr)] ELSE [str |-> value.str]

FormItemKeys ==
    {"type", "title", "description", "options", "points", "correctAnswer", "required"}

\* a parsed item as a FormItem: the fields the object has
AsFormItem(value) ==
    [key \in {k \in FormItemKeys : HasProperty(value, CharsOf[k])} |->
        FormItemField(key, Property(value, CharsOf[key]))]

\* parsedData as Form
AsForm(parsedData) ==
    [title |-> Property(parsedData, CharsOf.title).str,
     description |-> Property(parsedData, CharsOf.description).str,
     items |-> Map(AsFormItem, Property(parsedData, CharsOf.items).arr)]

SyntaxErrorMessage ==
    "The AI's response couldn't be processed. This can happen with complex requests. Please try simplifying or rephrasing your input."

MissingFieldsMessage ==
    "AI response is missing required fields (title, description, or items)."

UnavailableMessage ==
    "Failed to generate form from AI. The service might be temporarily unavailable or the input is too complex."

\* !parsedData.title || !parsedData.description || !Array.isArray(parsedData.items)
MissingRequiredFields(parsedData) ==
    \/ ~(HasProperty(parsedData, CharsOf.title)
            /\ Truthy(Property(parsedData, CharsOf.title)))
    \/ ~(HasProperty(parsedData, CharsOf.description)
            /\ Truthy(Property(parsedData, CharsOf.description)))
    \/ ~(HasProperty(parsedData, CharsOf.items)
            /\ Has(Property(parsedData, CharsOf.items), "arr"))

\* generateFormFromText from JSON.parse on: the Form returned, or the
\* message of the Error its catch block throws (reading a property of null
\* throws a TypeError)
ParseAndValidate(sanitizedText) ==
    LET parsed == JSONparse(sanitizedText)
    IN  IF ~parsed.ok THEN [error |-> SyntaxErrorMessage]
        ELSE IF parsed.value = JsNull THEN [error |-> UnavailableMessage]
        ELSE IF MissingRequiredFields(parsed.value)
             THEN [error |-> MissingFieldsMessage]
             ELSE [form |-> AsForm(parsed.value)]

\* generateFormFromText on what the call of the model gives: a response
\* with a text, a response without one, or a rejected promise.  The result
\* is the Form returned or the message of the Error thrown.
generateFormFromText(modelResponse) ==
    IF ~Has(modelResponse, "text")
    THEN [error |-> UnavailableMessage]
    ELSE ParseAndValidate(sanitizeJsonString(RemoveFences(modelResponse.text)))

----------------------------------------------------------------------------
(* The Forms and items explored *)

sA == <<"a">>
sZ == <<"z">>
\* a string with a quote, a backslash and a line break
sQ == <<"\"", "\\", "\n">>
sD == <<"d", "\"">>

\* a type outside the enumeration, as a generated Form may carry
UnknownType == "GRID"

OptionChoices  == {EmptyObject, [options |-> <<>>],
                   [options |-> <<sA, sQ>>], [options |-> <<sQ, sA>>]}
PointChoices   == {EmptyObject, [points |-> 0], [points |-> 2]}
AnswerChoices  ==
    {EmptyObject}
        \cup {[correctAnswer |-> [str |-> x]] : x \in {<<>>, sA, sZ}}
        \cup {[correctAnswer |-> [arr |-> x]] :
                x \in {<<>>, <<sA>>, <<sA, sZ>>, <<sQ, sA>>}}
RequiredChoices == {EmptyObject, [required |-> TRUE], [required |-> FALSE]}
DescriptionChoices == {EmptyObject, [description |-> sD]}

\* every combination of the fields of a FormItem
AllItems ==
    {[type |-> t, title |-> ti] @@ o @@ p @@ c @@ r @@ d :
        t \in ItemType \cup {UnknownType}, ti \in {sA, sQ},
        o \in OptionChoices, p \in PointChoices, c \in AnswerChoices,
        r \in RequiredChoices, d \in DescriptionChoices}

\* one item of each type, with titles that tell them apart
OrderItems ==
    {[type |-> SHORT_ANSWER, title |-> <<"s">>, points |-> 2,
        correctAnswer |-> [str |-> sA], required |-> TRUE],
     [type |-> PARAGRAPH, title |-> <<"p">>, points |-> 2,
        correctAnswer |-> [str |-> sA]],
     [type |-> MULTIPLE_CHOICE, title |-> <<"m">>, options |-> <<sA, sQ>>,
        points |-> 2],
     [type |-> CHECKBOXES, title |-> <<"c">>, options |-> <<sQ, sA>>,
        points |-> 1, correctAnswer |-> [arr |-> <<sA, sZ>>]],
     [type |-> DROPDOWN, title |-> <<"d">>, options |-> <<sA>>,
        correctAnswer |-> [str |-> sA]],
     [type |-> SECTION_HEADER, title |-> <<"h">>, description |-> sD],
     [type |-> UnknownType, title |-> <<"g", "\n">>]}

SeqsUpTo(S, n) == UNION {[1..k -> S] : k \in 0..n}

MakeForm(items) == [title |-> <<"F", "\"">>, description |-> sD, items |-> items]

\* the Forms the export mapper is applied to: every single item, and every
\* sequence of up to MaxItems of the items of OrderItems
MapperForms ==
    {MakeForm(<<it>>) : it \in AllItems}
        \cup {MakeForm(items) : items \in SeqsUpTo(OrderItems, MaxItems)}

----------------------------------------------------------------------------
(* State of the App and of the export modal *)

\* a string (as a token sequence) held in a state that may also hold null
Str(s) == [str |-> s]

InitApp ==
    /\ generatedForm = JsNull
    /\ isLoading = FALSE
    /\ appError = JsNull
    /\ isModalOpen = FALSE
    /\ generating = 0

\* the locals of one handleAuthAndCreate / createForm execution
NoRun ==
    [pc |-> "none", form |-> JsNull, calls |-> <<>>,
     createResponse |-> EmptyObject, batchUpdateResponse |-> EmptyObject]

\* the useState initial values of the modal
FreshModal ==
    /\ status = "idle"
    /\ error = JsNull
    /\ formUrl = JsNull
    /\ isGsiLoaded = FALSE
    /\ appsScript = <<>>
    /\ copied = FALSE
    /\ copyTimer = FALSE
    /\ run = NoRun

\* no call of generateFormFromText has been made
InitGeneration ==
    /\ response = JsNull
    /\ jsonStr = JsNull
    /\ sanitizedJsonStr = JsNull
    /\ result = JsNull

\* processFile is not running
NoFile == [pc |-> "none"]

\* the useState initial values of the InputPanel
InitInput ==
    /\ inputText = <<>>
    /\ isProcessingFile = FALSE
    /\ processingMessage = <<"Processing your file...">>
    /\ fileProcessingError = JsNull
    /\ pf = NoFile

\* no modal is mounted
InitModal ==
    /\ FreshModal
    /\ clipboard = <<>>
    /\ orphans = {}

----------------------------------------------------------------------------
(* The export mapper on its own: both pure functions applied to one Form *)

InitMapper ==
    /\ InitApp
    /\ InitModal
    /\ InitGeneration
    /\ InitInput
    /\ isConfigured = FALSE
    /\ mForm \in MapperForms
    /\ mRequests = <<>>
    /\ mScript = <<>>

\* createForm's request list for mForm
MapRequests ==
    /\ mRequests = <<>>
    /\ mRequests' = allRequests(mForm)
    /\ UNCHANGED <<appVars, modalVars, genVars, inputVars, mForm, mScript>>

\* generateAppsScript(mForm)
BuildScript ==
    /\ mScript = <<>>
    /\ mScript' = generateAppsScript(mForm)
    /\ UNCHANGED <<appVars, modalVars, genVars, inputVars, mForm, mRequests>>

NextMapper == MapRequests \/ BuildScript

SpecMapper == InitMapper /\ [][NextMapper]_vars

----------------------------------------------------------------------------
(* The responses of the generative model *)

\* the Forms a generation returns in this model
Forms ==
    {[title |-> <<"A">>, description |-> sD,
      items |-> <<[type |-> MULTIPLE_CHOICE, title |-> <<"m">>,
                    options |-> <<sA, sQ>>, points |-> 2],
                  [type |-> SHORT_ANSWER, title |-> <<"s">>, points |-> 2,
                    correctAnswer |-> [str |-> sA], required |-> TRUE]>>],
     [title |-> <<"B", "\"">>, description |-> <<"e">>,
      items |-> <<[type |-> SECTION_HEADER, title |-> <<"h">>, description |-> sD],
                  [type |-> CHECKBOXES, title |-> <<"c">>, options |-> <<sQ, sA>>,
                    points |-> 1, correctAnswer |-> [arr |-> <<sA, sZ>>]],
                  [type |-> UnknownType, title |-> <<"g">>]>>]}

\* "key": as the model writes it
JsonKey(key) == <<"\"">> \o CharsOf[key] \o <<"\"", ":">>

\* an array of the texts of its elements
JsonArray(texts) == <<"[">> \o Join(texts, ",") \o <<"]">>

\* the text of one field of an item
ItemFieldJson(item, key) ==
    JsonKey(key) \o
        (CASE key = "type" -> <<"\"">> \o CharsOf[item.type] \o <<"\"">>
           [] key \in {"title", "description"} -> JSONstringify(item[key])
           [] key = "options" -> JsonArray(Map(JSONstringify, item.options))
           [] key = "points" -> <<Digits[item.points + 1]>>
           [] key = "required" -> (IF item.required THEN TrueText ELSE FalseText)
           [] key = "correctAnswer" ->
                IF Has(item.correctAnswer, "arr")
                THEN JsonArray(Map(JSONstringify, item.correctAnswer.arr))
                ELSE JSONstringify(item.correctAnswer.str))

\* the keys of an item in the order of the prompt's JSON STRUCTURE
ItemKeyOrder ==
    <<"title", "description", "type", "options", "points", "correctAnswer", "required">>

ItemJson(item) ==
    LET present == SelectSeq(ItemKeyOrder, LAMBDA key : Has(item, key))
    IN  <<"{">> \o Join(Map(LAMBDA key : ItemFieldJson(item, key), present), ",")
            \o <<"}">>

\* the JSON text the model writes for a Form, as the prompt asks for it
FormJson(form) ==
    <<"{">> \o JsonKey("title") \o JSONstringify(form.title)
        \o <<",">> \o JsonKey("description") \o JSONstringify(form.description)
        \o <<",">> \o JsonKey("items") \o JsonArray(Map(ItemJson, form.items))
        \o <<"}">>

\* text inside a fenced block with a language tag
Fenced(tag, text) == Fence \o tag \o <<"\n">> \o text \o <<"\n">> \o Fence

\* the quote at index i is written as an escape: an odd number of
\* backslashes stands right before it
IsEscapedQuote(text, i) ==
    LET slashes == {k \in 1..(i - 1) : \A j \in k..(i - 1) : text[j] = "\\"}
    IN  Cardinality(slashes) % 2 = 1

\* the indices whose character stands outside every string literal: an
\* even number of quotes that open or close a literal stands before them
OutsideStrings(text) ==
    LET quotes == {q \in 1..Len(text) : text[q] = "\"" /\ ~IsEscapedQuote(text, q)}
    IN  {i \in 1..Len(text) :
            /\ i \notin quotes
            /\ Cardinality({q \in quotes : q < i}) % 2 = 0}

\* the closing braces and brackets of the objects and arrays of a text
Closers(text) == {i \in OutsideStrings(text) : text[i] \in {"}", "]"}}

RECURSIVE InjectIn(_, _, _, _, _)
InjectIn(text, from, to, at, gap) ==
    IF from > to THEN <<>>
    ELSE IF from = to
         THEN (IF from \in at THEN <<",">> \o gap ELSE <<>>) \o <<text[from]>>
         ELSE LET middle == (from + to) \div 2
              IN  InjectIn(text, from, middle, at, gap)
                    \o InjectIn(text, middle + 1, to, at, gap)

\* text with a comma and gap put before each closer whose index is in at
WithTrailingCommas(text, at, gap) == InjectIn(text, 1, Len(text), at, gap)

RECURSIVE JsonText(_)
\* a JSON text of a value (numbers of one digit)
JsonText(value) ==
    CASE Has(value, "str") -> JSONstringify(value.str)
      [] Has(value, "num") -> <<Digits[value.num + 1]>>
      [] Has(value, "bool") -> IF value.bool THEN TrueText ELSE FalseText
      [] Has(value, "null") -> NullText
      [] Has(value, "arr") -> JsonArray(Map(JsonText, value.arr))
      [] Has(value, "obj") ->
            <<"{">>
                \o Join(Map(LAMBDA m : JSONstringify(m.key) \o <<":">> \o JsonText(m.value),
                            value.obj), ",")
                \o <<"}">>

Member(key, value) == [key |-> key, value |-> value]

\* a Form without items, as a JSON value
EmptyFormValue ==
    [obj |-> <<Member(CharsOf.title, [str |-> <<"A">>]),
               Member(CharsOf.description, [str |-> <<"d">>]),
               Member(CharsOf.items, [arr |-> <<>>])>>]

\* seq without its element at index
Without(seq, index) == SubSeq(seq, 1, index - 1) \o SubSeq(seq, index + 1, Len(seq))

\* seq with the value of its member at index replaced
WithValue(seq, index, value) == [seq EXCEPT ![index].value = value]

\* JSON values that are no Form: a required field is missing, empty or of
\* another kind, or the value is no object
NoFormValues ==
    {[obj |-> Without(EmptyFormValue.obj, i)] : i \in 1..3}
        \cup {[obj |-> WithValue(EmptyFormValue.obj, 1, [str |-> <<>>])],
              [obj |-> WithValue(EmptyFormValue.obj, 3, [obj |-> <<>>])],
              [obj |-> WithValue(EmptyFormValue.obj, 3, JsNull)],
              [obj |-> <<>>], [arr |-> <<>>], [num |-> 5], [bool |-> TRUE],
              [str |-> <<"x">>], JsNull}

\* JSON values with commas, braces and brackets inside strings, and nested
NestedValues ==
    {[arr |-> <<[str |-> <<"a", ",", "]">>]>>],
     [obj |-> WithValue(EmptyFormValue.obj, 1, [str |-> <<"a", ",", " ", "}">>])],
     [obj |-> <<Member(<<"k">>, [arr |-> <<[obj |-> <<Member(<<"b">>, [arr |-> <<[num |-> 1], [num |-> 2]>>])>>],
                                          [str |-> <<"c">>]>>])>>]}

\* texts that are not JSON
BrokenTexts ==
    {<<>>, <<"{">>, <<"n", "u", "l">>, <<"[", "1", ",", ",", "]">>,
     <<"[", "1", ",", " ", ",", "]">>,
     <<"{", "\"", "a", "\"", "}">>, <<"[", "1", "]", "x">>}

\* the JSON texts: those of the Forms, of the other values, and the broken ones
JsonTexts ==
    {FormJson(form) : form \in Forms}
        \cup {JsonText(value) : value \in {EmptyFormValue} \cup NoFormValues \cup NestedValues}
        \cup BrokenTexts

\* a text as it is, and with a trailing comma before every closer, right
\* before it or with whitespace and a line break in between
CommaVariants(text) ==
    {text} \cup {WithTrailingCommas(text, Closers(text), gap) : gap \in {<<>>, <<" ", "\n">>}}

JsonTag == <<"j", "s", "o", "n">>

\* a text as it is, padded with whitespace, and wrapped in a fenced block
\* (with a language tag or without, with line breaks or without)
FenceVariants(text) ==
    {text, <<" ", "\n">> \o text \o <<"\n">>,
     Fenced(JsonTag, text), Fenced(<<>>, text), Fence \o text \o Fence,
     <<"\n">> \o Fenced(JsonTag, <<" ">> \o text \o <<" ">>) \o <<" ">>}

\* what the call of the model may give: a rejected promise, a response
\* without a text, or a response with one of the texts
ModelResponses ==
    {[rejected |-> TRUE], EmptyObject}
        \cup {[text |-> fenced] :
                fenced \in UNION {FenceVariants(commas) :
                    commas \in UNION {CommaVariants(text) : text \in JsonTexts}}}

\* those of them the App is run with
AppResponses ==
    {[rejected |-> TRUE], EmptyObject}
        \cup {[text |-> FormJson(form)] : form \in Forms}
        \cup {[text |-> Fenced(JsonTag, WithTrailingCommas(FormJson(form),
                            Closers(FormJson(form)), <<"\n">>))] : form \in Forms}
        \cup {[text |-> text] : text \in {NullText, <<"{", "}">>, <<"{">>}}

----------------------------------------------------------------------------
(* generateFormFromText on its own, step by step on one response *)

InitGenerate ==
    /\ InitApp
    /\ InitModal
    /\ InitInput
    /\ isConfigured = FALSE
    /\ mForm = MakeForm(<<>>)
    /\ mRequests = <<>>
    /\ mScript = <<>>
    /\ response \in ModelResponses
    /\ jsonStr = JsNull
    /\ sanitizedJsonStr = JsNull
    /\ result = JsNull

\* the call of the model fails, or response.text is undefined: the catch
\* block
ModelCallFails ==
    /\ ~Has(response, "text")
    /\ result = JsNull
    /\ result' = generateFormFromText(response)
    /\ UNCHANGED <<appVars, modalVars, mapperVars, inputVars, response, jsonStr,
                   sanitizedJsonStr>>

\* let jsonStr = response.text.trim(), and the fences removed
StripFences ==
    /\ Has(response, "text")
    /\ jsonStr = JsNull
    /\ jsonStr' = Str(RemoveFences(response.text))
    /\ UNCHANGED <<appVars, modalVars, mapperVars, inputVars, response,
                   sanitizedJsonStr, result>>

\* const sanitizedJsonStr = sanitizeJsonString(jsonStr)
Sanitize ==
    /\ jsonStr # JsNull
    /\ sanitizedJsonStr = JsNull
    /\ sanitizedJsonStr' = Str(sanitizeJsonString(jsonStr.str))
    /\ UNCHANGED <<appVars, modalVars, mapperVars, inputVars, response, jsonStr,
                   result>>

\* JSON.parse, the check of the required fields, and the catch block
Parse ==
    /\ sanitizedJsonStr # JsNull
    /\ result = JsNull
    /\ result' = ParseAndValidate(sanitizedJsonStr.str)
    /\ UNCHANGED <<appVars, modalVars, mapperVars, inputVars, response, jsonStr,
                   sanitizedJsonStr>>

NextGenerate == ModelCallFails \/ StripFences \/ Sanitize \/ Parse

SpecGenerate == InitGenerate /\ [][NextGenerate]_vars

----------------------------------------------------------------------------
(* The App: generation, and opening and closing the export modal *)

\* the messages generateFormFromText fails with
GenerationErrors == {SyntaxErrorMessage, MissingFieldsMessage, UnavailableMessage}

\* <GoogleFormModal> is rendered
Mounted == isModalOpen /\ Boolean(generatedForm)

RunInFlight(r) == r.pc \in {"token", "create", "batch"}

\* the first render of a modal for form and its effect
Mount(form) ==
    /\ status' = "idle"
    /\ error' = JsNull
    /\ formUrl' = JsNull
    /\ isGsiLoaded' = FALSE
    /\ appsScript' = IF isConfigured THEN <<>> ELSE generateAppsScript(form)
    /\ copied' = FALSE
    /\ copyTimer' = FALSE
    /\ run' = NoRun
    /\ UNCHANGED <<isConfigured, clipboard, orphans>>

\* the modal goes away with its state; what it started goes on without it
Unmount ==
    /\ RunInFlight(run) => Cardinality(orphans \cup {run}) <= MaxOrphans
    /\ status' = "idle"
    /\ error' = JsNull
    /\ formUrl' = JsNull
    /\ isGsiLoaded' = FALSE
    /\ appsScript' = <<>>
    /\ copied' = FALSE
    /\ copyTimer' = FALSE
    /\ run' = NoRun
    /\ orphans' = IF RunInFlight(run) THEN orphans \cup {run} ELSE orphans
    /\ UNCHANGED <<isConfigured, clipboard>>

\* the texts handleGenerate is called with: the Generate button is enabled
\* for any text that is not empty
GenerateTexts == {<<" ">>, <<"q">>}

EmptyTextMessage == "Please provide some text or upload a file to generate a form."

\* mutant: handleGenerate(text) without the guard of the blank text
handleGenerateOf_NoGuard(text) ==
    /\ isLoading' = TRUE
    /\ appError' = JsNull
    /\ generatedForm' = JsNull
    /\ generating' = generating + 1
    /\ UNCHANGED isModalOpen
    /\ IF Mounted THEN Unmount ELSE UNCHANGED modalVars

\* handleGenerate(text) up to its return or its await, whatever text is
handleGenerateOf(text) ==
    IF Trim(text) = <<>>
    THEN /\ appError' = Str(<<EmptyTextMessage>>)
         /\ UNCHANGED <<generatedForm, isLoading, isModalOpen, generating, modalVars>>
    ELSE /\ isLoading' = TRUE
         /\ appError' = JsNull
         /\ generatedForm' = JsNull
         /\ generating' = generating + 1
         /\ UNCHANGED isModalOpen
         /\ IF Mounted THEN Unmount ELSE UNCHANGED modalVars

\* handleGenerate that leaves the previous Form in place
handleGenerate_KeepsForm ==
    /\ ~isLoading
    /\ \E text \in GenerateTexts :
        IF Trim(text) = <<>>
        THEN /\ appError' = Str(<<EmptyTextMessage>>)
             /\ UNCHANGED <<generatedForm, isLoading, isModalOpen, generating, modalVars>>
        ELSE /\ isLoading' = TRUE
             /\ appError' = JsNull
             /\ generating' = generating + 1
             /\ UNCHANGED <<generatedForm, isModalOpen, modalVars>>
    /\ UNCHANGED <<genVars, inputVars, mapperVars>>

\* handleGenerate up to its return or its await (the Generate button is
\* enabled)
handleGenerate ==
    /\ ~isLoading
    /\ \E text \in GenerateTexts : handleGenerateOf(text)
    /\ UNCHANGED <<genVars, inputVars, mapperVars>>

\* the locals and the result of generateFormFromText on the response r
\* of the model
GenerationOf(r) ==
    [response |-> r,
     jsonStr |-> IF Has(r, "text") THEN Str(RemoveFences(r.text)) ELSE JsNull,
     sanitizedJsonStr |->
        IF Has(r, "text") THEN Str(sanitizeJsonString(RemoveFences(r.text)))
        ELSE JsNull,
     result |-> generateFormFromText(r)]

\* the executions of generateFormFromText the App is run with
AppGenerations == {GenerationOf(r) : r \in AppResponses}

\* generateFormFromText runs to its end as g
RunGeneration(g) ==
    /\ response' = g.response
    /\ jsonStr' = g.jsonStr
    /\ sanitizedJsonStr' = g.sanitizedJsonStr
    /\ result' = g.result

\* generateFormFromText returns a Form
GenerateReturns ==
    /\ generating > 0
    /\ \E g \in AppGenerations :
        /\ Has(g.result, "form")
        /\ RunGeneration(g)
        /\ generatedForm' = g.result.form
        /\ IF isModalOpen THEN Mount(g.result.form) ELSE UNCHANGED modalVars
    /\ isLoading' = FALSE
    /\ generating' = generating - 1
    /\ UNCHANGED <<appError, isModalOpen, inputVars, mapperVars>>

\* mutant: the catch without the finally
GenerateThrows_StillLoading ==
    /\ generating > 0
    /\ \E g \in AppGenerations :
        /\ Has(g.result, "error")
        /\ RunGeneration(g)
        /\ appError' = Str(<<g.result.error>>)
    /\ generating' = generating - 1
    /\ UNCHANGED <<generatedForm, isLoading, isModalOpen, modalVars, inputVars,
                   mapperVars>>

\* generateFormFromText throws
GenerateThrows ==
    /\ generating > 0
    /\ \E g \in AppGenerations :
        /\ Has(g.result, "error")
        /\ RunGeneration(g)
        /\ appError' = Str(<<g.result.error>>)
    /\ isLoading' = FALSE
    /\ generating' = generating - 1
    /\ UNCHANGED <<generatedForm, isModalOpen, modalVars, inputVars, mapperVars>>

\* the export button of the Form preview
openModal ==
    /\ ~isLoading /\ appError = JsNull /\ Boolean(generatedForm)
    /\ ~isModalOpen
    /\ isModalOpen' = TRUE
    /\ Mount(generatedForm)
    /\ UNCHANGED <<generatedForm, isLoading, appError, generating, genVars, inputVars,
                 mapperVars>>

closeModal ==
    /\ Mounted
    /\ isModalOpen' = FALSE
    /\ Unmount
    /\ UNCHANGED <<generatedForm, isLoading, appError, generating, genVars, inputVars,
                 mapperVars>>

----------------------------------------------------------------------------
(* The forms platform and the sign-in library, as the modal sees them *)

FormIds == {"form-1", "form-2"}

ResponderUri(formId) == <<"https://docs.google.com/forms/d/e/", formId, "/viewform">>

AccessToken == "access-token"

PlatformMessages == {"The caller does not have permission"}

\* what fetch gives for POST /forms: a response whose body is JSON, a
\* response whose body is not, or a rejected promise
CreateResponses ==
    {[ok |-> TRUE, json |-> [formId |-> id, responderUri |-> ResponderUri(id)]] :
        id \in FormIds}
        \cup {[ok |-> FALSE, json |-> [error |-> [message |-> m]]] : m \in PlatformMessages}
        \cup {[ok |-> FALSE, json |-> EmptyObject],
              [ok |-> FALSE, text |-> "<html>"],
              [rejected |-> TRUE]}

\* what fetch gives for POST /forms/{id}:batchUpdate
BatchUpdateResponses ==
    {[ok |-> TRUE, json |-> EmptyObject]}
        \cup {[ok |-> FALSE, json |-> [error |-> [message |-> m]]] : m \in PlatformMessages}
        \cup {[ok |-> FALSE, json |-> EmptyObject],
              [ok |-> FALSE, text |-> "<html>"],
              [rejected |-> TRUE]}

\* the token callback's argument, with an access token or without
TokenResponses == {[access_token |-> AccessToken], EmptyObject}

\* the argument of error_callback, with a message or without
TokenErrors == {[message |-> "Popup window closed"], EmptyObject}

\* the message of the TypeError a rejected fetch throws
FetchErrorMessage == "Failed to fetch"

\* the message of the SyntaxError response.json() throws
JsonErrorMessage == "Unexpected token < in JSON at position 0"

\* data.error?.message || fallback
ErrorMessageOr(data, fallback) ==
    IF Has(data, "error") /\ Has(data.error, "message") /\ data.error.message # ""
    THEN data.error.message ELSE fallback

----------------------------------------------------------------------------
(* createForm, cut at its awaits.  Each part gives the execution's locals    *)
(* after it (run) and the state it sets (set), which takes effect only in  *)
(* the modal that started the execution, while that modal is mounted.      *)

\* the fetch of the form shell
CreateCall(form, accessToken) ==
    [method |-> "POST", url |-> <<"https://forms.googleapis.com/v1/forms">>,
     authorization |-> <<"Bearer ", accessToken>>,
     body |-> formRequestBody(form)]

\* the fetch of the batch update
BatchUpdateCall(form, formId, accessToken) ==
    [method |-> "POST",
     url |-> <<"https://forms.googleapis.com/v1/forms/", formId, ":batchUpdate">>,
     authorization |-> <<"Bearer ", accessToken>>,
     body |-> batchUpdateBody(form)]

\* the catch block
CreateFormCatch(r, message) ==
    [run |-> [r EXCEPT !.pc = "done"],
     set |-> [error |-> Str(<<message>>), status |-> "error"]]

\* from the call of createForm to the first fetch
CreateFormStart(r, accessToken) ==
    [run |-> [r EXCEPT !.pc = "create",
                       !.calls = Append(@, CreateCall(r.form, accessToken))],
     set |-> [status |-> "creating", error |-> JsNull]]

\* from the shell's response to the second fetch
CreateFormAfterCreate(r, createResponse) ==
    LET r1 == [r EXCEPT !.createResponse = createResponse]
    IN  IF Has(createResponse, "rejected") THEN CreateFormCatch(r1, FetchErrorMessage)
        ELSE IF ~Has(createResponse, "json") THEN CreateFormCatch(r1, JsonErrorMessage)
        ELSE IF ~createResponse.ok
        THEN CreateFormCatch(r1,
                ErrorMessageOr(createResponse.json, "Failed to create the initial form."))
        ELSE [run |-> [r1 EXCEPT
                        !.pc = "batch",
                        !.calls = Append(@,
                            BatchUpdateCall(r.form, createResponse.json.formId, AccessToken))],
              set |-> EmptyObject]

\* CreateFormAfterBatchUpdate with setFormUrl ahead of the test of the response
CreateFormAfterBatchUpdate_UrlFirst(r, batchUpdateResponse) ==
    LET r1  == [r EXCEPT !.batchUpdateResponse = batchUpdateResponse]
        url == [formUrl |-> Str(r.createResponse.json.responderUri)]
    IN  IF Has(batchUpdateResponse, "rejected") THEN CreateFormCatch(r1, FetchErrorMessage)
        ELSE IF batchUpdateResponse.ok
        THEN [run |-> [r1 EXCEPT !.pc = "done"], set |-> url @@ [status |-> "success"]]
        ELSE [run |-> [r1 EXCEPT !.pc = "done"],
              set |-> url @@ CreateFormCatch(r1,
                        IF Has(batchUpdateResponse, "json")
                        THEN ErrorMessageOr(batchUpdateResponse.json,
                                "Failed to update the form with items and settings.")
                        ELSE JsonErrorMessage).set]

\* from the batch update's response to the end
CreateFormAfterBatchUpdate(r, batchUpdateResponse) ==
    LET r1 == [r EXCEPT !.batchUpdateResponse = batchUpdateResponse]
    IN  IF Has(batchUpdateResponse, "rejected") THEN CreateFormCatch(r1, FetchErrorMessage)
        ELSE IF batchUpdateResponse.ok
        THEN [run |-> [r1 EXCEPT !.pc = "done"],
              set |-> [formUrl |-> Str(r.createResponse.json.responderUri),
                       status |-> "success"]]
        ELSE IF ~Has(batchUpdateResponse, "json") THEN CreateFormCatch(r1, JsonErrorMessage)
        ELSE CreateFormCatch(r1,
                ErrorMessageOr(batchUpdateResponse.json,
                    "Failed to update the form with items and settings."))

\* mutant: createForm is called whatever the token response holds
TokenCallback_AnyResponse(r, tokenResponse) ==
    CreateFormStart(r, IF Has(tokenResponse, "access_token")
                       THEN tokenResponse.access_token ELSE "undefined")

\* the token callback
TokenCallback(r, tokenResponse) ==
    IF Has(tokenResponse, "access_token")
    THEN CreateFormStart(r, tokenResponse.access_token)
    ELSE [run |-> [r EXCEPT !.pc = "done"],
          set |-> [error |-> Str(<<"Authentication failed. No access token received.">>),
                   status |-> "error"]]

\* the token client's error_callback
TokenErrorCallback(r, err) ==
    [run |-> [r EXCEPT !.pc = "done"],
     set |-> [error |-> Str(IF Has(err, "message")
                            THEN <<"Authentication error: ", err.message>>
                            ELSE <<"Authentication error: ",
                                   "The sign-in process was closed or failed.">>),
              status |-> "error"]]

\* what one step of an execution in state r may do
RunSteps(r) ==
    CASE r.pc = "token" ->
            {TokenCallback(r, t) : t \in TokenResponses}
                \cup {TokenErrorCallback(r, e) : e \in TokenErrors}
      [] r.pc = "create" -> {CreateFormAfterCreate(r, c) : c \in CreateResponses}
      [] r.pc = "batch" -> {CreateFormAfterBatchUpdate(r, b) : b \in BatchUpdateResponses}
      [] OTHER -> {}

----------------------------------------------------------------------------
(* The export modal *)

\* the poll of checkGsi finds the sign-in library loaded
checkGsi ==
    /\ Mounted /\ isConfigured /\ ~isGsiLoaded
    /\ isGsiLoaded' = TRUE
    /\ UNCHANGED <<appVars, genVars, inputVars, mapperVars, isConfigured, status, error, formUrl,
                   appsScript, copied, copyTimer, clipboard, run, orphans>>

\* the sign-in button (shown when idle or authenticating; disabled while
\* authenticating and until the library has loaded)
handleAuthAndCreate ==
    /\ Mounted /\ isConfigured
    /\ status = "idle" /\ isGsiLoaded
    /\ IF ~isGsiLoaded \/ ~isConfigured
       THEN /\ error' = Str(<<"Authentication libraries are not ready. Please try again in a moment.">>)
            /\ status' = "error"
            /\ run' = run
       ELSE /\ status' = "authenticating"
            /\ error' = error
            /\ run' = [NoRun EXCEPT !.pc = "token", !.form = generatedForm]
    /\ UNCHANGED <<appVars, genVars, inputVars, mapperVars, isConfigured, formUrl, isGsiLoaded,
                   appsScript, copied, copyTimer, clipboard, orphans>>

\* a callback of the sign-in, or a response to createForm, of the mounted modal
RunStep ==
    /\ Mounted
    /\ \E next \in RunSteps(run) :
        /\ run' = next.run
        /\ status' = IF Has(next.set, "status") THEN next.set.status ELSE status
        /\ error' = IF Has(next.set, "error") THEN next.set.error ELSE error
        /\ formUrl' = IF Has(next.set, "formUrl") THEN next.set.formUrl ELSE formUrl
    /\ UNCHANGED <<appVars, genVars, inputVars, mapperVars, isConfigured, isGsiLoaded, appsScript,
                   copied, copyTimer, clipboard, orphans>>

\* the same for an execution whose modal is gone: its setState calls do nothing
OrphanStep ==
    /\ \E r \in orphans : \E next \in RunSteps(r) :
        orphans' = (orphans \ {r}) \cup
                        (IF RunInFlight(next.run) THEN {next.run} ELSE {})
    /\ UNCHANGED <<appVars, genVars, inputVars, mapperVars, isConfigured, status, error, formUrl,
                   isGsiLoaded, appsScript, copied, copyTimer, clipboard, run>>

\* handleTryAgain without setError(null)
handleTryAgain_KeepsError ==
    /\ Mounted /\ isConfigured /\ status = "error"
    /\ status' = "idle"
    /\ UNCHANGED <<appVars, genVars, inputVars, mapperVars, isConfigured, error, formUrl, isGsiLoaded,
                   appsScript, copied, copyTimer, clipboard, run, orphans>>

handleTryAgain ==
    /\ Mounted /\ isConfigured /\ status = "error"
    /\ status' = "idle"
    /\ error' = JsNull
    /\ UNCHANGED <<appVars, genVars, inputVars, mapperVars, isConfigured, formUrl, isGsiLoaded,
                   appsScript, copied, copyTimer, clipboard, run, orphans>>

handleCopyScript ==
    /\ Mounted /\ ~isConfigured
    /\ IF appsScript = <<>>
       THEN UNCHANGED <<clipboard, copied, copyTimer>>
       ELSE /\ clipboard' = appsScript
            /\ copied' = TRUE
            /\ copyTimer' = TRUE
    /\ UNCHANGED <<appVars, genVars, inputVars, mapperVars, isConfigured, status, error, formUrl,
                   isGsiLoaded, appsScript, run, orphans>>

\* a timer of handleCopyScript fires; copyTimer tells whether any is pending
CopiedTimeout ==
    /\ Mounted /\ copyTimer
    /\ copied' = FALSE
    /\ copyTimer' \in BOOLEAN
    /\ UNCHANGED <<appVars, genVars, inputVars, mapperVars, isConfigured, status, error, formUrl,
                   isGsiLoaded, appsScript, clipboard, run, orphans>>

----------------------------------------------------------------------------
(* The application *)

Init ==
    /\ InitApp
    /\ InitModal
    /\ InitGeneration
    /\ InitInput
    /\ isConfigured \in BOOLEAN
    /\ mForm = MakeForm(<<>>)
    /\ mRequests = <<>>
    /\ mScript = <<>>

Next ==
    \/ handleGenerate
    \/ GenerateReturns
    \/ GenerateThrows
    \/ openModal
    \/ closeModal
    \/ checkGsi
    \/ handleAuthAndCreate
    \/ RunStep
    \/ OrphanStep
    \/ handleTryAgain
    \/ handleCopyScript
    \/ CopiedTimeout

Spec == Init /\ [][Next]_vars

----------------------------------------------------------------------------
(* Reading the outputs of the export mapper *)

AllSixTypes(form) == \A i \in 1..Len(form.items) : form.items[i].type \in ItemType

IsChoiceType(type) == type \in {MULTIPLE_CHOICE, CHECKBOXES, DROPDOWN}

IsCreateItem(request) == Has(request, "createItem")

\* the item-creation requests of a request list, in the list's order
CreateRequests(requests) == SelectSeq(requests, IsCreateItem)

InsertAt(seq, index, x) ==
    SubSeq(seq, 1, index) \o <<x>> \o SubSeq(seq, index + 1, Len(seq))

RECURSIVE PlatformApply(_, _)
\* a platform that applies the requests one after another and inserts each
\* created item at the index its location names
PlatformApply(requests, items) ==
    IF requests = <<>> THEN items
    ELSE LET r == Head(requests)
         IN  PlatformApply(Tail(requests),
                IF IsCreateItem(r)
                THEN InsertAt(items, r.createItem.location.index, r.createItem.item)
                ELSE items)

\* the values of a sequence of { value } objects
Values(seq) == [i \in 1..Len(seq) |-> seq[i].value]

ConstructorNames ==
    {"addTextItem", "addParagraphTextItem", "addMultipleChoiceItem",
     "addCheckboxItem", "addListItem", "addSectionHeaderItem"}

IsConstructor(token) == token \in ConstructorNames

\* the position of the k-th token of text that satisfies Test
NthPosition(text, Test(_), k) ==
    CHOOSE p \in 1..Len(text) :
        /\ Test(text[p])
        /\ Cardinality({q \in 1..p : Test(text[q])}) = k

CountTokens(text, Test(_)) == Cardinality({q \in 1..Len(text) : Test(text[q])})

\* the k-th construction statement of a script: from its constructor up to
\* the next constructor (or the end of the script)
StatementAt(script, k) ==
    LET from == NthPosition(script, IsConstructor, k)
        to   == IF k < CountTokens(script, IsConstructor)
                THEN NthPosition(script, IsConstructor, k + 1) - 1
                ELSE Len(script)
    IN  SubSeq(script, from, to)

Unescape(c) == IF c = "n" THEN "\n" ELSE c

RECURSIVE DecodeFrom(_, _)
\* the string denoted by the JSON string literal whose first character
\* after the opening quote is text[i]
DecodeFrom(text, i) ==
    IF i > Len(text) \/ text[i] = "\"" THEN <<>>
    ELSE IF text[i] = "\\" /\ i < Len(text)
         THEN <<Unescape(text[i + 1])>> \o DecodeFrom(text, i + 2)
         ELSE <<text[i]>> \o DecodeFrom(text, i + 1)

\* the strings denoted by the literals that follow each token marker
LiteralsAfter(text, marker) ==
    LET IsMarker(t) == t = marker
    IN  [k \in 1..CountTokens(text, IsMarker) |->
            DecodeFrom(text, NthPosition(text, IsMarker, k) + 2)]

----------------------------------------------------------------------------
(* Claims about the export mapper, under SpecMapper *)

\* the creation request of the i-th item of a Form whose items all have one
\* of the six types: the requests are in the reverse of the Form's order
RequestOf(i) ==
    CreateRequests(mRequests)[Len(mForm.items) + 1 - i].createItem.item

\* C1: for a Form whose items all have one of the six types, the batch holds
\* exactly one createItem request per item, each with location index 0, in
\* the reverse of the Form's order, and a platform that applies the requests
\* one after another, inserting each at index 0, ends with the items in the
\* Form's order.
C1_ItemOrder ==
    (mRequests # <<>> /\ AllSixTypes(mForm)) =>
        LET items   == mForm.items
            n       == Len(items)
            creates == CreateRequests(mRequests)
            created == PlatformApply(mRequests, <<>>)
        IN  /\ Len(creates) = n
            /\ \A k \in 1..n :
                /\ creates[k].createItem.location.index = 0
                /\ creates[k] = mapItemToApiRequest(items[n + 1 - k])
            /\ Len(created) = n
            /\ \A i \in 1..n :
                /\ created[i].title = items[i].title
                /\ created[i] = mapItemToApiRequest(items[i]).createItem.item

C1_Witness ==
    /\ mRequests # <<>>
    /\ AllSixTypes(mForm)
    /\ Len(mForm.items) = 3
    /\ mForm.items[1].title # mForm.items[2].title
    /\ mForm.items[2].title # mForm.items[3].title
    /\ mForm.items[1].title # mForm.items[3].title

\* the external question kind the mapping table gives a choice type
C4_ChoiceKind(type) ==
    CASE type = MULTIPLE_CHOICE -> "RADIO"
      [] type = CHECKBOXES -> "CHECKBOX"
      [] type = DROPDOWN -> "DROP_DOWN"

\* C4: SHORT_ANSWER maps to a text question with paragraph=false, PARAGRAPH
\* to one with paragraph=true, the choice types to a choice question of type
\* RADIO / CHECKBOX / DROP_DOWN with the item's options in order, and
\* SECTION_HEADER to a text item with the item's title and description and
\* no question payload.
C4_TypeMapping ==
    (mRequests # <<>> /\ AllSixTypes(mForm)) =>
        \A i \in 1..Len(mForm.items) :
            LET item == mForm.items[i]
                req  == RequestOf(i)
            IN  /\ req.title = item.title
                /\ item.type = SHORT_ANSWER =>
                    /\ Has(req, "questionItem") /\ ~Has(req, "textItem")
                    /\ Has(req.questionItem.question, "textQuestion")
                    /\ req.questionItem.question.textQuestion.paragraph = FALSE
                    /\ ~Has(req.questionItem.question, "choiceQuestion")
                /\ item.type = PARAGRAPH =>
                    /\ Has(req, "questionItem") /\ ~Has(req, "textItem")
                    /\ Has(req.questionItem.question, "textQuestion")
                    /\ req.questionItem.question.textQuestion.paragraph = TRUE
                    /\ ~Has(req.questionItem.question, "choiceQuestion")
                /\ IsChoiceType(item.type) =>
                    /\ Has(req, "questionItem") /\ ~Has(req, "textItem")
                    /\ Has(req.questionItem.question, "choiceQuestion")
                    /\ ~Has(req.questionItem.question, "textQuestion")
                    /\ req.questionItem.question.choiceQuestion.type
                            = C4_ChoiceKind(item.type)
                    /\ Values(req.questionItem.question.choiceQuestion.options)
                            = OptionsOrEmpty(item)
                /\ item.type = SECTION_HEADER =>
                    /\ Has(req, "textItem")
                    /\ ~Has(req, "questionItem")
                    /\ DOMAIN req \subseteq {"title", "description", "textItem"}
                    /\ Has(req, "description") = Has(item, "description")
                    /\ Has(item, "description") => req.description = item.description

C4_Witness ==
    /\ mRequests # <<>>
    /\ Len(mForm.items) = 1
    /\ mForm.items[1].type = CHECKBOXES
    /\ Has(mForm.items[1], "options")
    /\ Len(mForm.items[1].options) = 2
    /\ Values(RequestOf(1).questionItem.question.choiceQuestion.options)
            = mForm.items[1].options

\* the grading part of C5, with "correctAnswer is present" read as Present
C5_GradingWhen(Present(_)) ==
    (mRequests # <<>> /\ AllSixTypes(mForm)) =>
        \A i \in 1..Len(mForm.items) :
            LET item     == mForm.items[i]
                question == RequestOf(i).questionItem.question
            IN  (item.type = SHORT_ANSWER \/ IsChoiceType(item.type)) =>
                    /\ Has(question, "grading")
                        <=> (Has(item, "points") /\ item.points > 0 /\ Present(item))
                    /\ Has(question, "grading") =>
                        /\ question.grading.pointValue = item.points
                        /\ Values(question.grading.correctAnswers.answers)
                            = IF Has(item.correctAnswer, "arr")
                              THEN item.correctAnswer.arr
                              ELSE <<item.correctAnswer.str>>

C5_PresentOriginal(item) == Has(item, "correctAnswer")

C5_PresentAmended(item) ==
    Has(item, "correctAnswer") /\ item.correctAnswer # [str |-> <<>>]

\* C5 as stated: for a SHORT_ANSWER or choice item the grading block is
\* attached exactly when points > 0 and correctAnswer is present, with point
\* value = points and the correct answers = correctAnswer as a sequence.
C5_Original == C5_GradingWhen(C5_PresentOriginal)

\* C5 as amended: for a SHORT_ANSWER or choice item the grading block is
\* attached exactly when points > 0 and correctAnswer is present and is not
\* the empty string; when attached its point value is the item's points and
\* its answers are correctAnswer in order, a single string wrapped as a
\* one-element sequence.
C5_Grading == C5_GradingWhen(C5_PresentAmended)

C5_Witness ==
    /\ mRequests # <<>>
    /\ Len(mForm.items) = 1
    /\ mForm.items[1].type = SHORT_ANSWER
    /\ Has(mForm.items[1], "points") /\ mForm.items[1].points > 0
    /\ Has(mForm.items[1], "correctAnswer")
    /\ mForm.items[1].correctAnswer = [str |-> sA]
    /\ Values(RequestOf(1).questionItem.question.grading.correctAnswers.answers)
            = <<sA>>

IsSetPoints(token) == token = "item.setPoints("

\* C6: a PARAGRAPH item is never graded: its creation request has no grading
\* block and its construction statement sets no points, whatever points and
\* correctAnswer it carries.
C6_ParagraphNeverGraded ==
    AllSixTypes(mForm) =>
        \A i \in 1..Len(mForm.items) :
            mForm.items[i].type = PARAGRAPH =>
                /\ mRequests # <<>> =>
                    ~Has(RequestOf(i).questionItem.question, "grading")
                /\ mScript # <<>> =>
                    /\ StatementAt(mScript, i)[1] = "addParagraphTextItem"
                    /\ CountTokens(StatementAt(mScript, i), IsSetPoints) = 0

C6_Witness ==
    /\ mRequests # <<>> /\ mScript # <<>>
    /\ Len(mForm.items) = 1
    /\ mForm.items[1].type = PARAGRAPH
    /\ Has(mForm.items[1], "points") /\ mForm.items[1].points > 0
    /\ Has(mForm.items[1], "correctAnswer")
    /\ mForm.items[1].correctAnswer = [str |-> sA]

\* C7: for a CHECKBOXES item with options and a non-empty correctAnswer, no
\* creation request and no construction statement carries, unflagged, a
\* correct answer that is not one of the item's options (the mapper has no
\* way to reject or flag an item: whatever it emits is emitted unflagged).
C7_AnswersAmongOptions ==
    AllSixTypes(mForm) =>
        \A i \in 1..Len(mForm.items) :
            LET item == mForm.items[i]
            IN  (item.type = CHECKBOXES /\ IsArrayAnswer(item)
                    /\ item.correctAnswer.arr # <<>> /\ OptionsOrEmpty(item) # <<>>) =>
                    /\ (mRequests # <<>>
                        /\ Has(RequestOf(i).questionItem.question, "grading")) =>
                        \A a \in 1..Len(RequestOf(i).questionItem.question.grading.correctAnswers.answers) :
                            Includes(OptionsOrEmpty(item),
                                RequestOf(i).questionItem.question.grading.correctAnswers.answers[a].value)
                    /\ mScript # <<>> =>
                        \A c \in 1..Len(LiteralsAfter(StatementAt(mScript, i), "item.createChoice(")) :
                            Includes(OptionsOrEmpty(item),
                                LiteralsAfter(StatementAt(mScript, i), "item.createChoice(")[c])

\* the constructor the mapping table gives a type
C10_Constructor(type) ==
    CASE type = SHORT_ANSWER -> "addTextItem"
      [] type = PARAGRAPH -> "addParagraphTextItem"
      [] type = MULTIPLE_CHOICE -> "addMultipleChoiceItem"
      [] type = CHECKBOXES -> "addCheckboxItem"
      [] type = DROPDOWN -> "addListItem"
      [] type = SECTION_HEADER -> "addSectionHeaderItem"

\* C10: for a Form whose items all have one of the six types the script has
\* exactly one construction statement per item, in the Form's order, with
\* the constructor of the mapping table and the item's title, a choice
\* item's options listed in their order; and the script sets quiz mode.
C10_ScriptStructure ==
    (mScript # <<>> /\ AllSixTypes(mForm)) =>
        LET items == mForm.items
            n     == Len(items)
        IN  /\ SelectSeq(mScript, IsConstructor)
                = [i \in 1..n |-> C10_Constructor(items[i].type)]
            /\ \A i \in 1..n :
                /\ LiteralsAfter(StatementAt(mScript, i), "().setTitle(")
                        = <<items[i].title>>
                /\ LiteralsAfter(StatementAt(mScript, i), "item.createChoice(")
                        = IF IsChoiceType(items[i].type)
                          THEN OptionsOrEmpty(items[i]) ELSE <<>>
            /\ Includes(mScript, "form.setIsQuiz(true);")

C10_Witness ==
    /\ mScript # <<>>
    /\ AllSixTypes(mForm)
    /\ Len(mForm.items) = 3
    /\ mForm.items[1].type = CHECKBOXES
    /\ mForm.items[2].type = SECTION_HEADER
    /\ mForm.items[3].type = DROPDOWN
    /\ LiteralsAfter(StatementAt(mScript, 1), "item.createChoice(") = <<sQ, sA>>

AiWarningComment ==
    "\n  // AI WARNING: This question was assigned points, but the AI did not identify a correct answer. Please set the answer manually in the Form editor."

IsAiWarning(token) == token = AiWarningComment

ManualStepComment ==
    "\n\n  // --- IMPORTANT: MANUAL STEP REQUIRED FOR THE QUESTION ABOVE ---"

SuggestedAnswerComment ==
    "\n  // You must set this in the Google Forms editor. The suggested correct answer is: "

ManualEntryComment ==
    "\n  // You must set the correct answer manually in the Google Forms editor."

IsManualStep(token) == token = ManualStepComment

IsSuggestedAnswer(token) == token = SuggestedAnswerComment

IsManualEntry(token) == token = ManualEntryComment

\* the item's correctAnswer names at least one answer
AnswerIdentified(item) ==
    /\ Has(item, "correctAnswer")
    /\ IF Has(item.correctAnswer, "arr")
       THEN item.correctAnswer.arr # <<>>
       ELSE item.correctAnswer.str # <<>>

\* the answers an item's correctAnswer names, as a sequence
AnswersOf(item) ==
    IF Has(item.correctAnswer, "arr")
    THEN item.correctAnswer.arr ELSE <<item.correctAnswer.str>>

\* a choice item with points and no identified correct answer
C11_NeedsWarning(item) ==
    IsChoiceType(item.type) /\ PointsOrZero(item) > 0 /\ ~AnswerIdentified(item)

\* a SHORT_ANSWER item with points
C11_NeedsManualStep(item) == item.type = SHORT_ANSWER /\ PointsOrZero(item) > 0

\* the comments of the script are those the claim names, where Suggests
\* tells the items whose manual-step comment states the suggested answer
C11_CommentsWhen(Suggests(_)) ==
    mScript # <<>> =>
        LET items == mForm.items
            n     == Len(items)
        IN  /\ CountTokens(mScript, IsAiWarning)
                = Cardinality({i \in 1..n : C11_NeedsWarning(items[i])})
            /\ CountTokens(mScript, IsManualStep)
                = Cardinality({i \in 1..n : C11_NeedsManualStep(items[i])})
            /\ CountTokens(mScript, IsSuggestedAnswer)
                + CountTokens(mScript, IsManualEntry)
                = Cardinality({i \in 1..n : C11_NeedsManualStep(items[i])})
            /\ AllSixTypes(mForm) =>
                \A i \in 1..n :
                    LET statement == StatementAt(mScript, i)
                    IN  /\ Includes(statement, AiWarningComment)
                            <=> C11_NeedsWarning(items[i])
                        /\ Includes(statement, ManualStepComment)
                            <=> C11_NeedsManualStep(items[i])
                        /\ C11_NeedsManualStep(items[i]) =>
                            IF Suggests(items[i])
                            THEN /\ LiteralsAfter(statement, SuggestedAnswerComment)
                                        = AnswersOf(items[i])
                                 /\ ~Includes(statement, ManualEntryComment)
                            ELSE /\ Includes(statement, ManualEntryComment)
                                 /\ ~Includes(statement, SuggestedAnswerComment)

\* the claim as stated: the suggested answer is stated when the item has one
C11_SuggestsOriginal(item) == AnswerIdentified(item)

\* the answer is stated when correctAnswer is a non-empty string
C11_SuggestsAmended(item) ==
    /\ Has(item, "correctAnswer")
    /\ Has(item.correctAnswer, "str")
    /\ item.correctAnswer.str # <<>>

\* C11 as stated: the script has a warning comment for every choice item
\* with points and no identified correct answer, a manual-step comment for
\* every SHORT_ANSWER item with points, which states the suggested answer
\* when the item has a correctAnswer and otherwise instructs manual entry,
\* and no such comment for any other item.
C11_Original == C11_CommentsWhen(C11_SuggestsOriginal)

\* C11 (amended): as above, but the manual-step comment states the suggested
\* answer exactly when the item's correctAnswer is a non-empty string; for a
\* correctAnswer that is a sequence it instructs manual entry.
C11_WarningComments == C11_CommentsWhen(C11_SuggestsAmended)

C11_Witness ==
    /\ mScript # <<>>
    /\ Len(mForm.items) = 3
    /\ mForm.items[1].type = SHORT_ANSWER
    /\ C11_SuggestsAmended(mForm.items[1])
    /\ mForm.items[2].type = MULTIPLE_CHOICE
    /\ C11_NeedsWarning(mForm.items[2])
    /\ mForm.items[3].type = DROPDOWN
    /\ ~C11_NeedsWarning(mForm.items[3])
    /\ CountTokens(mScript, IsAiWarning) = 1
    /\ LiteralsAfter(StatementAt(mScript, 1), SuggestedAnswerComment) = <<sA>>

\* the characters of the strings of the Forms explored, and those the
\* escapes are written with
FormChars ==
    {"a", "z", "d", "e", "g", "h", "c", "m", "p", "s", "n", "A", "B", "F",
     "\"", "\\", "\n"}

IsFormChar(token) == token \in FormChars

RECURSIVE WellEscapedFrom(_, _, _)
\* from token i on, every character taken from a Form string lies inside a
\* string literal (open: a literal is open at i), where a quote or a
\* backslash is written as an escape and no line break is written raw
WellEscapedFrom(text, i, open) ==
    IF i > Len(text) THEN ~open
    ELSE IF ~IsFormChar(text[i]) THEN ~open /\ WellEscapedFrom(text, i + 1, FALSE)
    ELSE IF ~open THEN text[i] = "\"" /\ WellEscapedFrom(text, i + 1, TRUE)
    ELSE IF text[i] = "\"" THEN WellEscapedFrom(text, i + 1, FALSE)
    ELSE IF text[i] = "\\"
         THEN /\ i < Len(text)
              /\ text[i + 1] \in {"\"", "\\", "n"}
              /\ WellEscapedFrom(text, i + 2, TRUE)
         ELSE text[i] # "\n" /\ WellEscapedFrom(text, i + 1, TRUE)

\* some item title of the Form holds a line break
HasLineBreakTitle(form) ==
    \E i \in 1..Len(form.items) : Includes(form.items[i].title, "\n")

\* C12: every string of the Form that the script embeds (titles,
\* descriptions, options, suggested answers) is embedded as an escaped
\* string literal, for an item of any type: no character of a Form string
\* stands in the script outside a literal, and no quote, backslash or line
\* break stands raw inside one.  Stated for the Forms the escaping matters
\* to, those with a line break in an item title.
C12_AllEscaped ==
    (mScript # <<>> /\ HasLineBreakTitle(mForm)) => WellEscapedFrom(mScript, 1, FALSE)

\* the same for the Forms whose items all have one of the six types
C12_SixTypesEscaped ==
    (mScript # <<>> /\ AllSixTypes(mForm)) => WellEscapedFrom(mScript, 1, FALSE)

----------------------------------------------------------------------------
(* Claims about the export modal, under Spec *)

\* every execution of handleAuthAndCreate / createForm there is
AllRuns == {run} \cup orphans

OkResponse(fetched) == Has(fetched, "ok") /\ fetched.ok

IsShellCreation(call, form) ==
    /\ call.method = "POST"
    /\ call.url = <<"https://forms.googleapis.com/v1/forms">>
    /\ DOMAIN call.body = {"info"}
    /\ DOMAIN call.body.info = {"title", "documentTitle"}
    /\ call.body.info.title = form.title
    /\ call.body.info.documentTitle = form.title

KnownItems(form) == SelectSeq(form.items, LAMBDA item : item.type \in ItemType)

IsBatchUpdate(call, form, formId) ==
    LET requests == call.body.requests
        n        == Len(requests)
    IN  /\ call.method = "POST"
        /\ call.url = <<"https://forms.googleapis.com/v1/forms/", formId, ":batchUpdate">>
        /\ n = Len(KnownItems(form)) + 2
        /\ Has(requests[1], "updateSettings")
        /\ requests[1].updateSettings.settings.quizSettings.isQuiz = TRUE
        /\ \A k \in 2..(n - 1) : IsCreateItem(requests[k])
        /\ Has(requests[n], "updateFormInfo")
        /\ requests[n].updateFormInfo.info.description = form.description

\* C2: createForm first issues one shell-creation call carrying only the
\* title (as title and documentTitle); only after that call has succeeded it
\* issues exactly one batchUpdate call, addressed to the formId the shell
\* creation returned, whose requests are the quiz-mode request, then the
\* item creations, then the description update.
C2_CallSequence ==
    \A r \in AllRuns :
        /\ r.pc \in {"none", "token"} => r.calls = <<>>
        /\ Len(r.calls) <= 2
        /\ Len(r.calls) >= 1 => IsShellCreation(r.calls[1], r.form)
        /\ r.pc = "create" => Len(r.calls) = 1
        /\ Len(r.calls) = 2 =>
            /\ OkResponse(r.createResponse)
            /\ IsBatchUpdate(r.calls[2], r.form, r.createResponse.json.formId)
        /\ r.pc = "batch" => Len(r.calls) = 2
        /\ (r.pc = "done" /\ OkResponse(r.createResponse)) => Len(r.calls) = 2

C2_Witness ==
    /\ Mounted /\ status = "success"
    /\ run.pc = "done"
    /\ Len(run.calls) = 2
    /\ Len(KnownItems(run.form)) = 2
    /\ run.createResponse.json.formId = "form-2"

HasPlatformMessage(fetched) ==
    /\ Has(fetched, "json")
    /\ Has(fetched.json, "error")
    /\ Has(fetched.json.error, "message")

\* status 'success' is reached only when both calls succeeded, and then
\* formUrl is the responderUri of the shell creation's response
C3_SuccessOnlyAfterBoth ==
    (Mounted /\ status = "success") =>
        /\ run.pc = "done"
        /\ OkResponse(run.createResponse)
        /\ OkResponse(run.batchUpdateResponse)
        /\ formUrl = Str(run.createResponse.json.responderUri)

\* a step in which the mounted modal's createForm ends on a response to the
\* shell creation that is not a success
C3_ShellCreationFails ==
    /\ Mounted /\ run.pc = "create" /\ run'.pc = "done"
    /\ Has(run'.createResponse, "ok") /\ ~run'.createResponse.ok

\* a step in which the mounted modal's createForm ends on a response to the
\* batch update that is not a success
C3_BatchUpdateFails ==
    /\ Mounted /\ run.pc = "batch" /\ run'.pc = "done"
    /\ Has(run'.batchUpdateResponse, "ok") /\ ~run'.batchUpdateResponse.ok

\* C3: a non-success status of the shell creation ends createForm with no
\* batchUpdate call and the modal in status 'error' with the platform's
\* error message; a non-success status of the batch update ends it in status
\* 'error' with the platform's error message and formUrl unset; status
\* 'success' is reached only when both calls succeeded, with formUrl the
\* responderUri of the shell creation's response.
C3_Failure ==
    /\ []C3_SuccessOnlyAfterBoth
    /\ [][C3_ShellCreationFails =>
            /\ Len(run'.calls) = 1
            /\ status' = "error"
            /\ error' # JsNull
            /\ HasPlatformMessage(run'.createResponse) =>
                error' = Str(<<run'.createResponse.json.error.message>>)]_vars
    /\ [][C3_BatchUpdateFails =>
            /\ status' = "error"
            /\ error' # JsNull
            /\ formUrl' = JsNull
            /\ HasPlatformMessage(run'.batchUpdateResponse) =>
                error' = Str(<<run'.batchUpdateResponse.json.error.message>>)]_vars

C3_Witness ==
    /\ Mounted /\ status = "error"
    /\ run.pc = "done"
    /\ Len(run.calls) = 2
    /\ HasPlatformMessage(run.batchUpdateResponse)
    /\ error = Str(<<run.batchUpdateResponse.json.error.message>>)
    /\ formUrl = JsNull

\* a choice item with points and no correctAnswer
MissingAnswerKey(item) ==
    /\ IsChoiceType(item.type)
    /\ Has(item, "points") /\ item.points > 0
    /\ ~Has(item, "correctAnswer")

\* C8: in either mode, an export of a Form that has a choice item with
\* points > 0 and no correctAnswer shows the user a warning: Mode A does not
\* end in 'success' with nothing said (the modal's only message is error),
\* and the Mode B script has a warning comment for each such item.
C8_MissingKeyWarned ==
    Mounted =>
        LET missing == SelectSeq(generatedForm.items, MissingAnswerKey)
        IN  /\ (isConfigured /\ status = "success" /\ missing # <<>>) => error # JsNull
            /\ ~isConfigured =>
                CountTokens(appsScript, IsAiWarning) >= Len(missing)

\* the steps of the export modal
C9_ModalStep ==
    \/ openModal \/ closeModal \/ checkGsi \/ handleAuthAndCreate \/ RunStep
    \/ OrphanStep \/ handleTryAgain \/ handleCopyScript \/ CopiedTimeout

\* while a modal shows an error, the Form it was opened for is still held,
\* and the sign-in library is loaded, so that the sign-in button is enabled
\* once the modal is idle again
C9_FormHeldOnError ==
    (Mounted /\ isConfigured /\ status = "error") =>
        /\ Boolean(generatedForm)
        /\ run.form = generatedForm
        /\ isGsiLoaded

\* C9: no step of the export modal changes generatedForm; after a failed
\* Mode A export the same Form is still held; Try Again returns the modal to
\* status 'idle' with the error cleared, from where the export can be
\* started again.
C9_FormUntouched ==
    /\ [][C9_ModalStep => generatedForm' = generatedForm]_vars
    /\ []C9_FormHeldOnError
    /\ [][handleTryAgain =>
            /\ status' = "idle"
            /\ error' = JsNull
            /\ generatedForm' = generatedForm
            /\ isGsiLoaded']_vars

C9_Witness ==
    /\ Mounted /\ isConfigured
    /\ status = "idle" /\ error = JsNull
    /\ run.pc = "done"
    /\ Len(run.calls) = 2
    /\ ~OkResponse(run.batchUpdateResponse)
    /\ run.form = generatedForm

----------------------------------------------------------------------------
(* Claims about generation, under Spec *)

\* value has title, description and items, items being a sequence
HasRequiredFields(value) ==
    /\ HasProperty(value, CharsOf.title)
    /\ HasProperty(value, CharsOf.description)
    /\ HasProperty(value, CharsOf.items)
    /\ Has(Property(value, CharsOf.items), "arr")

\* the sanitized response parses as JSON and has the required fields
C13_Valid ==
    /\ sanitizedJsonStr # JsNull
    /\ JSONparse(sanitizedJsonStr.str).ok
    /\ HasRequiredFields(JSONparse(sanitizedJsonStr.str).value)

\* once a call of generateFormFromText has ended: it returned a Form only
\* if the sanitized response is valid, and it failed if it is not
C13_ReturnsOnlyValid ==
    result # JsNull =>
        /\ Has(result, "form") => C13_Valid
        /\ ~C13_Valid => Has(result, "error")

\* when generateFormFromText fails the App holds no Form, shows the
\* message thrown and is no longer loading
C13_AppOnFailure ==
    GenerateThrows =>
        /\ generatedForm' = JsNull
        /\ appError' = Str(<<result'.error>>)
        /\ ~isLoading'

\* C13: generateFormFromText returns a Form only when the sanitized
\* response parses as JSON and has title, description and items, items
\* being a sequence; in every other case it fails, and the App then holds
\* no generated Form and shows the error.
C13_GenerationValidated == []C13_ReturnsOnlyValid /\ [][C13_AppOnFailure]_vars

C13_Witness ==
    /\ result = [error |-> MissingFieldsMessage]
    /\ response = [text |-> <<"{", "}">>]
    /\ appError = Str(<<MissingFieldsMessage>>)
    /\ generatedForm = JsNull
    /\ ~isLoading
    /\ isModalOpen

----------------------------------------------------------------------------
(* Claims about generateFormFromText, under SpecGenerate *)

\* the call of the model gave no text to work on
UpstreamFailed == ~Has(response, "text")

\* the text handed to the parser is not JSON
NotParsable ==
    /\ sanitizedJsonStr # JsNull
    /\ ~JSONparse(sanitizedJsonStr.str).ok

\* the text handed to the parser is JSON without one of the required fields
LacksRequiredField ==
    /\ sanitizedJsonStr # JsNull
    /\ JSONparse(sanitizedJsonStr.str).ok
    /\ ~HasRequiredFields(JSONparse(sanitizedJsonStr.str).value)

\* the message of a failed call tells its cause
C14_MessageTellsCause ==
    /\ NotParsable => result.error = SyntaxErrorMessage
    /\ LacksRequiredField => result.error = MissingFieldsMessage
    /\ result.error = UnavailableMessage => UpstreamFailed

\* C14: a response that is not parsable JSON after sanitization yields the
\* "couldn't be processed" message, every response that parses but lacks a
\* required top-level field yields the "missing required fields" message,
\* only a failure of the upstream call yields the "service might be
\* temporarily unavailable" message, and the three messages are distinct.
C14_CauseDistinguished ==
    /\ Cardinality(GenerationErrors) = 3
    /\ (result # JsNull /\ Has(result, "error")) => C14_MessageTellsCause

\* the same for every response but one whose JSON text is null
C14_ExceptNull ==
    (/\ result # JsNull
     /\ Has(result, "error")
     /\ ~(LacksRequiredField /\ JSONparse(sanitizedJsonStr.str).value = JsNull))
        => C14_MessageTellsCause

\* the JSON texts that parse, each with the texts made of it by injecting
\* trailing commas before its closers (none, or one before every closer)
InjectedTexts ==
    UNION {{[original |-> text, injected |-> commas] : commas \in CommaVariants(text)} :
                text \in {parsable \in JsonTexts : JSONparse(parsable).ok}}

\* a comma inside a string literal of text is followed by whitespace and a
\* closing brace or bracket
CommaBeforeCloserInString(text) ==
    LET outside == OutsideStrings(text)
    IN  \E i \in 1..Len(text) : i \notin outside /\ IsTrailingComma(text, i)

\* the sanitized text denotes the value of every comma-free original that
\* the text given to the sanitizer was made of
SameValueAsOriginal ==
    \A pair \in InjectedTexts :
        pair.injected = jsonStr.str
            => JSONparse(sanitizedJsonStr.str) = JSONparse(pair.original)

\* C15: for a JSON text into which trailing commas were injected before a
\* closing brace or bracket (nested, with whitespace or line breaks between
\* comma and closer), sanitizeJsonString returns a text that parses and
\* denotes the same value as the comma-free original, no character inside
\* a string value being changed.
C15_SanitizerKeepsValue == sanitizedJsonStr # JsNull => SameValueAsOriginal

\* the same for the texts whose strings hold no comma before a closer
C15_OutsideStrings ==
    (sanitizedJsonStr # JsNull /\ ~CommaBeforeCloserInString(jsonStr.str))
        => SameValueAsOriginal

\* a text with injected commas was sanitized to its original
C15_Reached ==
    /\ sanitizedJsonStr # JsNull
    /\ \E pair \in InjectedTexts :
            /\ pair.injected = jsonStr.str
            /\ pair.injected # pair.original
            /\ sanitizedJsonStr.str = pair.original
            /\ ~CommaBeforeCloserInString(jsonStr.str)

\* text begins with a fence and ends with one
WrappedInFence(text) ==
    /\ Len(text) >= 6
    /\ SubSeq(text, 1, 3) = Fence
    /\ SubSeq(text, Len(text) - 2, Len(text)) = Fence

\* the first index behind the language tag of a wrapped text: the tag is
\* the word characters that stand right behind the opening fence
BehindTag(text) ==
    CHOOSE j \in 4..Len(text) :
        /\ text[j] \notin WordChars
        /\ \A k \in 4..(j - 1) : text[k] \in WordChars

\* what stands between the language tag and the closing fence
InteriorOf(text) == SubSeq(text, BehindTag(text), Len(text) - 3)

\* the text handed to the parser is text apart from comma removal
HandsOver(text) == sanitizedJsonStr.str = sanitizeJsonString(text)

\* the statement for every fenced block, the whitespace around the response
\* and around the interior set aside: the interior of a fenced block is
\* handed over, and the response when it is not fenced
C16_Original ==
    sanitizedJsonStr # JsNull =>
        LET trimmed == Trim(response.text)
        IN  IF WrappedInFence(trimmed)
            THEN HandsOver(Trim(InteriorOf(trimmed)))
            ELSE HandsOver(trimmed)

\* C16: when the whole response, whitespace around it set aside, is
\* wrapped in a fenced block (opening fence with optional language tag,
\* closing fence) whose interior is not blank, the text handed to the
\* parser is the interior without the whitespace around it, unchanged
\* apart from comma removal; when the response is not fenced, or the
\* interior is blank, it is the response without the whitespace around
\* it, unchanged apart from comma removal.
C16_FenceHandling ==
    sanitizedJsonStr # JsNull =>
        LET trimmed == Trim(response.text)
        IN  IF WrappedInFence(trimmed) /\ Trim(InteriorOf(trimmed)) # <<>>
            THEN HandsOver(Trim(InteriorOf(trimmed)))
            ELSE HandsOver(trimmed)

\* a fenced, padded response with trailing commas was handed to the parser
\* as the JSON text of a Form
C16_Witness ==
    /\ sanitizedJsonStr # JsNull
    /\ \E form \in Forms :
            /\ sanitizedJsonStr.str = FormJson(form)
            /\ WrappedInFence(Trim(response.text))
            /\ response.text # Trim(response.text)
            /\ InteriorOf(Trim(response.text)) # FormJson(form)
            /\ Trim(InteriorOf(Trim(response.text))) # FormJson(form)

\* a fenced block with a blank interior was handed on with its fences
C16_BlankInterior ==
    /\ sanitizedJsonStr # JsNull
    /\ WrappedInFence(response.text)
    /\ Trim(InteriorOf(response.text)) = <<>>
    /\ sanitizedJsonStr.str = response.text

----------------------------------------------------------------------------
(* The InputPanel: typing, and processFile await by await *)

\* how many pages a PDF has at most
MaxPages == 2

\* the thresholds of the heuristic of processFile
OcrTextThreshold == 50
OcrMinHeight == 100

\* the string of n characters c
Repeat(c, n) == [k \in 1..n |-> c]

\* the texts getTextContent gives for a page, joined: short of the
\* threshold, at the threshold, and short of it only when trimmed
ShortText == Repeat("a", OcrTextThreshold - 1)
AmpleText == Repeat("b", OcrTextThreshold)
PaddedText == <<" ">> \o Repeat("c", OcrTextThreshold - 1) \o <<"\n">>

\* the pages of the PDFs: the text, and page.getViewport({ scale: 1.0 }).height
Pages ==
    {[text |-> ShortText, height |-> OcrMinHeight + 1],
     [text |-> ShortText, height |-> OcrMinHeight],
     [text |-> AmpleText, height |-> OcrMinHeight + 1],
     [text |-> PaddedText, height |-> OcrMinHeight + 1]}

RECURSIVE PagesUpTo(_)
\* the sequences of at most n pages
PagesUpTo(n) ==
    IF n = 0 THEN {<<>>}
    ELSE PagesUpTo(n - 1)
            \cup {Append(pages, page) :
                    pages \in {shorter \in PagesUpTo(n - 1) : Len(shorter) = n - 1},
                    page \in Pages}

PdfType == "application/pdf"
DocxType == "application/vnd.openxmlformats-officedocument.wordprocessingml.document"

\* the text of a DOCX or text file
FileText == <<" ", "t", "\n">>

\* the files a user uploads: file.name.split('.').pop()?.toLowerCase(),
\* file.type, and what the file holds
Files ==
    {[extension |-> "pdf", type |-> PdfType, pages |-> pages] :
        pages \in PagesUpTo(MaxPages)}
        \cup {[extension |-> "pdf", type |-> "", pages |-> <<>>],
              [extension |-> "bin", type |-> PdfType, pages |-> <<>>],
              [extension |-> "docx", type |-> DocxType, text |-> FileText],
              [extension |-> "doc", type |-> DocxType, text |-> FileText],
              [extension |-> "txt", type |-> "text/plain", text |-> FileText],
              [extension |-> "md", type |-> "", text |-> FileText],
              [extension |-> "csv", type |-> "text/csv", text |-> FileText],
              [extension |-> "exe", type |-> "application/octet-stream"],
              [extension |-> "readme", type |-> ""]}

\* fileExtension === 'pdf' || file.type === 'application/pdf'
IsPdf(file) == file.extension = "pdf" \/ file.type = PdfType

\* fileExtension === 'docx' || file.type === the DOCX type
IsDocx(file) == file.extension = "docx" \/ file.type = DocxType

\* ['txt', 'md'].includes(fileExtension || '') || file.type.startsWith('text/')
IsTextFile(file) ==
    \/ file.extension \in {"txt", "md"}
    \/ file.type \in {"text/plain", "text/csv"}

UnsupportedMessage ==
    "Unsupported file type. Please upload a PDF, DOCX, TXT, or MD file."

UnknownErrorMessage == "An unknown error occurred while reading the file."

\* what a rejected promise of the file, of pdf.js or of mammoth carries
Rejections == {[message |-> "The file could not be read."], [notAnError |-> TRUE]}

\* err instanceof Error ? err.message : the unknown-error message
ErrorMessage(err) ==
    IF Has(err, "message") THEN err.message ELSE UnknownErrorMessage

\* `Processing page ${i} of ${pdf.numPages}...`
ProcessingPageMessage(i, numPages) ==
    <<"Processing page ", Digits[i + 1], " of ", Digits[numPages + 1], "...">>

\* `Image detected on page ${i}. Running OCR...`
ImageDetectedMessage(i) ==
    <<"Image detected on page ", Digits[i + 1], ". Running OCR...">>

\* `Could not read text from an image on page ${i}. The result might be
\* incomplete.`
OcrWarning(i) ==
    <<"Could not read text from an image on page ", Digits[i + 1],
      ". The result might be incomplete.">>

\* what extractTextFromImage returns: response.text, a string or undefined
OcrReplies == {Str(<<"x">>), Str(<<" ", "y", "\n">>), [undefined |-> TRUE]}

\* how an attempt at OCR stands or ended: the call is awaited, it threw,
\* or the page was not rendered and the call never made
Pending == [pending |-> TRUE]
Threw == [threw |-> TRUE]
NotRendered == [notRendered |-> TRUE]

\* the attempt at the OCR of page i
Attempt(i, reply) == [page |-> i, reply |-> reply]

\* ocrText + '\n\n' starts with the characters of String(ocrText)
StringOf(reply) ==
    IF Has(reply, "str") THEN reply.str
    ELSE <<"u", "n", "d", "e", "f", "i", "n", "e", "d">>

\* mutant: the threshold is taken to be met by a text that reaches it
NeedsOcr_AtThreshold(pageText, height) ==
    Len(Trim(pageText)) <= OcrTextThreshold /\ height > OcrMinHeight

\* pageText.trim().length < 50 && page.getViewport({ scale: 1.0 }).height > 100
NeedsOcr(pageText, height) ==
    Len(Trim(pageText)) < OcrTextThreshold /\ height > OcrMinHeight

\* mutant: the contribution is put before the text accumulated
Appended_Before(fullText, contribution) ==
    contribution \o <<"\n", "\n">> \o fullText

\* fullText += contribution + '\n\n'
Appended(fullText, contribution) ==
    fullText \o contribution \o <<"\n", "\n">>

\* an InputPanel without an upload; the App is not generating
InitInputPanel ==
    /\ InitApp
    /\ InitModal
    /\ InitGeneration
    /\ InitInput
    /\ isConfigured = FALSE
    /\ mForm = MakeForm(<<>>)
    /\ mRequests = <<>>
    /\ mScript = <<>>

\* what a user types into the textarea
TypedTexts == {<<>>, <<" ">>, <<"q">>}

\* onChange of the textarea, which is disabled while a file is processed
TypeInput ==
    /\ ~isLoading
    /\ ~isProcessingFile
    /\ \E text \in TypedTexts :
            /\ text # inputText
            /\ inputText' = text
    /\ UNCHANGED <<appVars, modalVars, mapperVars, genVars, isProcessingFile,
                   processingMessage, fileProcessingError, pf>>

\* handleFile and processFile up to its first await: the three setters,
\* then the branch on the kind of file.  An unsupported file runs through
\* throw, catch and finally at once.
processFile(file) ==
    /\ inputText' = <<>>
    /\ IF IsPdf(file)
       THEN /\ processingMessage' = <<"Loading PDF...">>
            /\ isProcessingFile' = TRUE
            /\ fileProcessingError' = JsNull
            /\ pf' = [pc |-> "arrayBuffer", file |-> file]
       ELSE IF IsDocx(file)
       THEN /\ processingMessage' = <<"Extracting text from DOCX...">>
            /\ isProcessingFile' = TRUE
            /\ fileProcessingError' = JsNull
            /\ pf' = [pc |-> "docxBuffer", file |-> file]
       ELSE IF IsTextFile(file)
       THEN /\ processingMessage' = <<"Reading text file...">>
            /\ isProcessingFile' = TRUE
            /\ fileProcessingError' = JsNull
            /\ pf' = [pc |-> "text", file |-> file]
       ELSE /\ fileProcessingError' = Str(<<UnsupportedMessage>>)
            /\ isProcessingFile' = FALSE
            /\ pf' = [pc |-> "failed", file |-> file]
            /\ UNCHANGED processingMessage

\* a file is chosen or dropped; the file input is disabled and the panel
\* covered while a file is processed (a file can be dropped while the App
\* generates)
UploadFile ==
    /\ ~isProcessingFile
    /\ \E file \in Files : processFile(file)
    /\ UNCHANGED <<appVars, modalVars, mapperVars, genVars>>

\* the awaits of processFile outside the try block of the OCR
OuterAwaits ==
    {"arrayBuffer", "getDocument", "getPage", "getTextContent", "docxBuffer",
     "extractRawText", "text"}

\* one of them is rejected: catch (err) and finally
AwaitRejects ==
    /\ pf.pc \in OuterAwaits
    /\ \E err \in Rejections :
            fileProcessingError' = Str(<<ErrorMessage(err)>>)
    /\ isProcessingFile' = FALSE
    /\ pf' = [pf EXCEPT !.pc = "failed"]
    /\ UNCHANGED <<appVars, modalVars, mapperVars, genVars, inputText,
                   processingMessage>>

\* the loop of the pages goes on after page pf.i, message being shown: the
\* next page is asked for, or setInputText(fullText.trim()) and finally
ContinueLoop(fullText, ocr, message) ==
    IF pf.i < Len(pf.file.pages)
    THEN /\ processingMessage' = ProcessingPageMessage(pf.i + 1, Len(pf.file.pages))
         /\ pf' = [pf EXCEPT !.pc = "getPage", !.i = pf.i + 1,
                             !.fullText = fullText, !.ocr = ocr]
         /\ UNCHANGED <<inputText, isProcessingFile>>
    ELSE /\ processingMessage' = message
         /\ inputText' = Trim(fullText)
         /\ isProcessingFile' = FALSE
         /\ pf' = [pf EXCEPT !.pc = "done", !.fullText = fullText, !.ocr = ocr]

\* await file.arrayBuffer() of a PDF is fulfilled: getDocument is called
ArrayBufferResolves ==
    /\ pf.pc = "arrayBuffer"
    /\ pf' = [pf EXCEPT !.pc = "getDocument"]
    /\ UNCHANGED <<appVars, modalVars, mapperVars, genVars, inputText,
                   isProcessingFile, processingMessage, fileProcessingError>>

\* await getDocument(...).promise is fulfilled: let fullText = '', and the
\* loop is entered
GetDocumentResolves ==
    /\ pf.pc = "getDocument"
    /\ IF Len(pf.file.pages) >= 1
       THEN /\ processingMessage' = ProcessingPageMessage(1, Len(pf.file.pages))
            /\ pf' = [pc |-> "getPage", file |-> pf.file, i |-> 1,
                      fullText |-> <<>>, ocr |-> <<>>]
            /\ UNCHANGED <<inputText, isProcessingFile>>
       ELSE /\ inputText' = Trim(<<>>)
            /\ isProcessingFile' = FALSE
            /\ pf' = [pc |-> "done", file |-> pf.file, i |-> 1,
                      fullText |-> <<>>, ocr |-> <<>>]
            /\ UNCHANGED processingMessage
    /\ UNCHANGED <<appVars, modalVars, mapperVars, genVars, fileProcessingError>>

\* await pdf.getPage(i) is fulfilled: getTextContent is called
GetPageResolves ==
    /\ pf.pc = "getPage"
    /\ pf' = [pf EXCEPT !.pc = "getTextContent"]
    /\ UNCHANGED <<appVars, modalVars, mapperVars, genVars, inputText,
                   isProcessingFile, processingMessage, fileProcessingError>>

\* mutant: the catch of the OCR gives the document up
OcrFallback_Aborts(ocr, message) ==
    /\ fileProcessingError' = Str(OcrWarning(pf.i))
    /\ processingMessage' = message
    /\ isProcessingFile' = FALSE
    /\ pf' = [pf EXCEPT !.pc = "failed", !.ocr = ocr]
    /\ UNCHANGED inputText

\* catch (ocrError): the text of the page is appended and the warning set
OcrFallback(ocr, message) ==
    /\ fileProcessingError' = Str(OcrWarning(pf.i))
    /\ ContinueLoop(Appended(pf.fullText, pf.file.pages[pf.i].text), ocr, message)

\* await page.getTextContent() is fulfilled: the heuristic.  A page that
\* needs no OCR gives its text; one that needs it is rendered, unless the
\* canvas has no context, which the catch of the OCR handles.
GetTextContentResolves ==
    /\ pf.pc = "getTextContent"
    /\ LET page == pf.file.pages[pf.i]
       IN  IF NeedsOcr(page.text, page.height)
           THEN \/ /\ processingMessage' = ImageDetectedMessage(pf.i)
                   /\ pf' = [pf EXCEPT !.pc = "render"]
                   /\ UNCHANGED <<inputText, isProcessingFile, fileProcessingError>>
                \/ OcrFallback(Append(pf.ocr, Attempt(pf.i, NotRendered)),
                               ImageDetectedMessage(pf.i))
           ELSE /\ ContinueLoop(Appended(pf.fullText, page.text), pf.ocr,
                                processingMessage)
                /\ UNCHANGED fileProcessingError
    /\ UNCHANGED <<appVars, modalVars, mapperVars, genVars>>

\* await page.render(...).promise is fulfilled: extractTextFromImage is
\* called with the image of page i
RenderResolves ==
    /\ pf.pc = "render"
    /\ pf' = [pf EXCEPT !.pc = "ocr",
                        !.ocr = Append(@, Attempt(pf.i, Pending))]
    /\ UNCHANGED <<appVars, modalVars, mapperVars, genVars, inputText,
                   isProcessingFile, processingMessage, fileProcessingError>>

\* await page.render(...).promise is rejected
RenderRejects ==
    /\ pf.pc = "render"
    /\ OcrFallback(Append(pf.ocr, Attempt(pf.i, NotRendered)), processingMessage)
    /\ UNCHANGED <<appVars, modalVars, mapperVars, genVars>>

\* the attempts with the reply to the last call
Replied(ocr, reply) == [ocr EXCEPT ![Len(ocr)].reply = reply]

\* await extractTextFromImage(base64Image) is fulfilled with response.text
OcrReturns ==
    /\ pf.pc = "ocr"
    /\ \E reply \in OcrReplies :
            ContinueLoop(Appended(pf.fullText, StringOf(reply)),
                         Replied(pf.ocr, reply), processingMessage)
    /\ UNCHANGED <<appVars, modalVars, mapperVars, genVars, fileProcessingError>>

\* extractTextFromImage throws "Failed to perform OCR on the image. ..."
OcrThrows ==
    /\ pf.pc = "ocr"
    /\ OcrFallback(Replied(pf.ocr, Threw), processingMessage)
    /\ UNCHANGED <<appVars, modalVars, mapperVars, genVars>>

\* await file.arrayBuffer() of a DOCX is fulfilled: mammoth is called
DocxBufferResolves ==
    /\ pf.pc = "docxBuffer"
    /\ pf' = [pf EXCEPT !.pc = "extractRawText"]
    /\ UNCHANGED <<appVars, modalVars, mapperVars, genVars, inputText,
                   isProcessingFile, processingMessage, fileProcessingError>>

\* await mammoth.extractRawText(...) or await file.text() is fulfilled:
\* setInputText with the text as it is, and finally
TextResolves ==
    /\ pf.pc \in {"extractRawText", "text"}
    /\ inputText' = pf.file.text
    /\ isProcessingFile' = FALSE
    /\ pf' = [pf EXCEPT !.pc = "done"]
    /\ UNCHANGED <<appVars, modalVars, mapperVars, genVars, processingMessage,
                   fileProcessingError>>

NextInput ==
    \/ TypeInput
    \/ UploadFile
    \/ AwaitRejects
    \/ ArrayBufferResolves
    \/ GetDocumentResolves
    \/ GetPageResolves
    \/ GetTextContentResolves
    \/ RenderResolves
    \/ RenderRejects
    \/ OcrReturns
    \/ OcrThrows
    \/ DocxBufferResolves
    \/ TextResolves

SpecInput == InitInputPanel /\ [][NextInput]_vars

----------------------------------------------------------------------------
(* The InputPanel inside the App: typing, uploads and generation together *)

\* the files of at most one page, and those without pages
SmallFiles == {file \in Files : Has(file, "pages") => Len(file.pages) <= 1}

\* a file out of the small ones is chosen or dropped
UploadSmallFile ==
    /\ ~isProcessingFile
    /\ \E file \in SmallFiles : processFile(file)
    /\ UNCHANGED <<appVars, modalVars, mapperVars, genVars>>

\* mutant: the Generate button is enabled while the App generates
handleSubmit_WhileLoading ==
    /\ ~isProcessingFile
    /\ generating < 2
    /\ inputText # <<>>
    /\ handleGenerateOf(inputText)
    /\ UNCHANGED <<genVars, inputVars, mapperVars>>

\* the Generate button, disabled={isLoading || isProcessingFile || !inputText},
\* and handleSubmit: onGenerate(inputText)
handleSubmit ==
    /\ ~(isLoading \/ isProcessingFile \/ inputText = <<>>)
    /\ handleGenerateOf(inputText)
    /\ UNCHANGED <<genVars, inputVars, mapperVars>>

NextSession ==
    \/ TypeInput
    \/ UploadSmallFile
    \/ AwaitRejects
    \/ ArrayBufferResolves
    \/ GetDocumentResolves
    \/ GetPageResolves
    \/ GetTextContentResolves
    \/ RenderResolves
    \/ RenderRejects
    \/ OcrReturns
    \/ OcrThrows
    \/ DocxBufferResolves
    \/ TextResolves
    \/ handleSubmit
    \/ GenerateReturns
    \/ GenerateThrows

SpecSession == InitInputPanel /\ [][NextSession]_vars

----------------------------------------------------------------------------
(* Claims about processFile, under SpecInput *)

\* a PDF is or was ingested and its loop of pages was entered
InPdf == Has(pf, "ocr")

\* the pages of the PDF whose contribution has been appended
PagesDone ==
    IF pf.pc = "done" THEN 1..Len(pf.file.pages) ELSE 1..(pf.i - 1)

\* how often the OCR client was invoked for page k
OcrCalls(k) ==
    Cardinality({n \in 1..Len(pf.ocr) :
                    pf.ocr[n].page = k /\ pf.ocr[n].reply # NotRendered})

\* rendering page k to an image failed
RenderFailed(k) ==
    \E n \in 1..Len(pf.ocr) : pf.ocr[n] = Attempt(k, NotRendered)

\* the statement as it reads: the length of the extracted text decides, and
\* every page that qualifies has its call
C17_Original ==
    InPdf =>
        \A k \in PagesDone :
            LET page == pf.file.pages[k]
            IN  OcrCalls(k) =
                    IF Len(page.text) < OcrTextThreshold /\ page.height > OcrMinHeight
                    THEN 1 ELSE 0

\* C17: during PDF ingestion the OCR client is invoked exactly once for
\* every page processed whose extracted text, the whitespace at its ends
\* set aside, is shorter than 50 characters and whose viewport height
\* exceeds 100, unless rendering the page to an image fails; it is not
\* invoked for a page that could not be rendered nor for any other page.
C17_OcrTrigger ==
    InPdf =>
        \A k \in PagesDone :
            LET page == pf.file.pages[k]
            IN  OcrCalls(k) =
                    IF /\ Len(Trim(page.text)) < OcrTextThreshold
                       /\ page.height > OcrMinHeight
                       /\ ~RenderFailed(k)
                    THEN 1 ELSE 0

\* a PDF was ingested to its end: its padded page had its one call, its
\* page of ample text none
C17_Witness ==
    /\ InPdf
    /\ pf.pc = "done"
    /\ Len(pf.file.pages) = 2
    /\ pf.file.pages[1].text = PaddedText
    /\ pf.file.pages[2].text = AmpleText
    /\ OcrCalls(1) = 1
    /\ OcrCalls(2) = 0
    /\ ~RenderFailed(1)

\* the pages whose OCR failed: the call threw, or the page was not rendered
FailedPages(ocr) ==
    {ocr[n].page : n \in {m \in 1..Len(ocr) : ocr[m].reply \in {Threw, NotRendered}}}

\* the step in which the OCR of page pf.i fails
OcrFails ==
    /\ InPdf
    /\ Has(pf', "ocr")
    /\ pf.i \notin FailedPages(pf.ocr)
    /\ pf.i \in FailedPages(pf'.ocr)

\* when the OCR of a page fails the text extracted for the page is appended
\* and the warning recorded; the next page is asked for, or on the last page
\* the input text is set to the accumulated text
C18_FailureStep ==
    OcrFails =>
        /\ pf'.fullText = pf.fullText \o pf.file.pages[pf.i].text \o <<"\n", "\n">>
        /\ fileProcessingError' = Str(OcrWarning(pf.i))
        /\ IF pf.i < Len(pf.file.pages)
           THEN /\ pf'.pc = "getPage"
                /\ pf'.i = pf.i + 1
                /\ isProcessingFile'
           ELSE /\ pf'.pc = "done"
                /\ inputText' = Trim(pf'.fullText)
                /\ ~isProcessingFile'

\* ingestion that ended after a failed OCR without a failure of another
\* kind went through every page and shows a warning
C18_WarningAtEnd ==
    (InPdf /\ pf.pc = "done" /\ FailedPages(pf.ocr) # {}) =>
        /\ pf.i = Len(pf.file.pages)
        /\ \E k \in FailedPages(pf.ocr) : fileProcessingError = Str(OcrWarning(k))

\* C18: when OCR fails for a page, ingestion appends the sparse text
\* already extracted for that page, goes on to the later pages, records a
\* warning, and finishes by setting the input text to the accumulated
\* text; the failure never aborts the document, and a warning is still
\* recorded when ingestion ends.
C18_OcrFailureIsSoft == [][C18_FailureStep]_vars /\ []C18_WarningAtEnd

\* the OCR of the first of two pages failed, the second page was processed
\* and ingestion ended with the text of both and the warning of the first
C18_Witness ==
    /\ InPdf
    /\ pf.pc = "done"
    /\ Len(pf.file.pages) = 2
    /\ pf.ocr = <<Attempt(1, Threw), Attempt(2, Str(<<"x">>))>>
    /\ inputText = pf.file.pages[1].text \o <<"\n", "\n", "x">>
    /\ fileProcessingError = Str(OcrWarning(1))
    /\ ~isProcessingFile

\* what page k gave to the text: the reply of the OCR when there is one,
\* the text extracted from the page otherwise
Contribution(k) ==
    LET replies == {n \in 1..Len(pf.ocr) :
                        /\ pf.ocr[n].page = k
                        /\ pf.ocr[n].reply \in OcrReplies}
    IN  IF replies # {}
        THEN StringOf(pf.ocr[CHOOSE n \in replies : TRUE].reply)
        ELSE pf.file.pages[k].text

RECURSIVE ContributionsUpTo(_)
\* the contributions of the pages 1..k in ascending order, each closed by
\* the blank line the loop puts behind it
ContributionsUpTo(k) ==
    IF k = 0 THEN <<>>
    ELSE ContributionsUpTo(k - 1) \o Contribution(k) \o <<"\n", "\n">>

\* while page pf.i is processed, and when ingestion has ended, the text
\* accumulated is that of the pages done, in ascending order; the attempts
\* at OCR were made in ascending order of the pages, none for a page behind
\* the one processed, and a call awaited is that of the page processed
C19_InOrder ==
    InPdf =>
        /\ pf.fullText = ContributionsUpTo(Cardinality(PagesDone))
        /\ \A n \in 1..Len(pf.ocr) :
                /\ pf.ocr[n].page <= pf.i
                /\ \A m \in 1..(n - 1) : pf.ocr[m].page < pf.ocr[n].page
                /\ pf.ocr[n].reply = Pending => (pf.ocr[n].page = pf.i /\ pf.pc = "ocr")

\* a page is begun only when the contribution of the page before it has
\* been appended
C19_PageBegins ==
    (InPdf /\ Has(pf', "ocr") /\ pf'.i # pf.i) =>
        /\ pf'.i = pf.i + 1
        /\ pf'.fullText = ContributionsUpTo(pf.i - 1)'
        /\ pf'.pc = "getPage"

\* ingestion ends by setting the input text to the text accumulated,
\* without the whitespace at its ends
C19_TextSet ==
    (InPdf /\ pf.pc # "done" /\ Has(pf', "ocr") /\ pf'.pc = "done") =>
        inputText' = Trim(ContributionsUpTo(Len(pf.file.pages))')

\* C19: the text produced by ingesting a multi-page PDF is the
\* concatenation of the per-page contributions (OCR text, or extracted
\* text) in ascending page order, each closed by a blank line and the whole
\* trimmed; processing of page i+1 (including its OCR call) does not start
\* before page i's contribution has been appended, however long the OCR
\* calls take.
C19_PageOrder ==
    []C19_InOrder /\ [][C19_PageBegins]_vars /\ [][C19_TextSet]_vars

\* a PDF of two pages was ingested, both by OCR with different replies
C19_Witness ==
    /\ InPdf
    /\ pf.pc = "done"
    /\ pf.ocr = <<Attempt(1, Str(<<" ", "y", "\n">>)), Attempt(2, Str(<<"x">>))>>
    /\ inputText = <<"y", "\n", "\n", "\n", "x">>

\* a file of an unsupported type is uploaded: processFile fails at once
UploadUnsupported == UploadFile /\ pf'.pc = "failed"

\* the file of an upload cannot be read: its first await is rejected
UploadUnreadable == AwaitRejects /\ pf.pc \in {"arrayBuffer", "docxBuffer", "text"}

\* C20: when processFile fails because the file type is unsupported or the
\* file is unreadable, the input text that was present before the upload
\* is unchanged afterwards, and the error message is set (for an
\* unsupported type, the message listing PDF, DOCX, TXT and MD).  Stated
\* for the unsupported type, where upload and failure are one step.
C20_PriorInputUntouched ==
    [][UploadUnsupported =>
            /\ inputText' = inputText
            /\ fileProcessingError' = Str(<<UnsupportedMessage>>)]_vars

\* what holds instead: the message is set, and the input text is empty
\* from the begin of the upload on
C20_InputCleared ==
    [][(UploadUnsupported =>
            /\ inputText' = <<>>
            /\ fileProcessingError' = Str(<<UnsupportedMessage>>)
            /\ ~isProcessingFile')
       /\ (UploadFile => inputText' = <<>>)
       /\ (UploadUnreadable =>
            /\ inputText' = <<>>
            /\ fileProcessingError' # JsNull
            /\ ~isProcessingFile')]_vars

\* text had been typed when a file of an unsupported type was uploaded
C20_Reached ==
    /\ pf.pc = "failed"
    /\ ~Has(pf.file, "pages")
    /\ ~Has(pf.file, "text")
    /\ fileProcessingError = Str(<<UnsupportedMessage>>)
    /\ inputText = <<>>

----------------------------------------------------------------------------
(* Claims about the InputPanel inside the App, under SpecSession *)

\* at most one call of generateFormFromText is in flight, and isLoading
\* tells whether one is
C21_AtMostOne ==
    /\ generating <= 1
    /\ isLoading <=> generating = 1

\* a request is started only while the App is not loading, no file is being
\* processed and there is input text
C21_StartsWhenEnabled ==
    generating' > generating =>
        /\ ~isLoading
        /\ ~isProcessingFile
        /\ inputText # <<>>
        /\ generating' = 1

\* C21: in every reachable state at most one generation request (call of
\* generateFormFromText) is in flight; while isLoading is true, or while a
\* file is being processed, the Generate button is disabled and no second
\* request can be started.
C21_SingleGeneration == []C21_AtMostOne /\ [][C21_StartsWhenEnabled]_vars

\* a request is in flight while a file, dropped after its start, is processed
C21_Witness ==
    /\ generating = 1
    /\ isLoading
    /\ isProcessingFile
    /\ pf.pc = "ocr"

----------------------------------------------------------------------------
(* Claims about the lifecycle of the Form, under Spec *)

\* starting a request clears the Form and the error and sets isLoading
C22_Start ==
    generating' > generating =>
        /\ generatedForm' = JsNull
        /\ appError' = JsNull
        /\ isLoading'

\* when the request completes isLoading is false and exactly one of the
\* Form and the error is set: the Form returned, or the error and no Form
C22_Completion ==
    generating' < generating =>
        /\ ~isLoading'
        /\ (generatedForm' = JsNull) # (appError' = JsNull)
        /\ Has(result', "form") => generatedForm' = result'.form
        /\ Has(result', "error") => generatedForm' = JsNull

\* C22: starting a generation request clears the previous Form and the
\* previous error and sets isLoading; when the request completes, on
\* success or on failure, isLoading is false and exactly one of
\* generatedForm and error is non-null, so a failed regeneration leaves no
\* Form and a successful one holds exactly the newly returned Form.
C22_Lifecycle == [][C22_Start]_vars /\ [][C22_Completion]_vars

\* a request has ended with the Form it returned: the App holds this Form
\* and no error, and the modal shows it
C22_Witness ==
    /\ Has(result, "form")
    /\ generatedForm = result.form
    /\ generatedForm.title = <<"B", "\"">>
    /\ appError = JsNull
    /\ ~isLoading
    /\ isModalOpen

----------------------------------------------------------------------------
(* Claims about sanitizeJsonString, under SpecGenerate *)

\* only whitespace stands between the indices i and j of text
OnlyWhitespaceBetween(text, i, j) ==
    \A k \in (i + 1)..(j - 1) : text[k] \in Whitespace

\* the commas of text that are followed, whitespace set aside, by a closing
\* brace or bracket
CommasBeforeCloser(text) ==
    {i \in 1..Len(text) :
        /\ text[i] = ","
        /\ \E j \in (i + 1)..Len(text) :
                /\ text[j] \in {"}", "]"}
                /\ OnlyWhitespaceBetween(text, i, j)}

\* a comma of text is followed, whitespace set aside, by another comma
\* that stands before a closer
CommaBeforeComma(text) ==
    LET last == CommasBeforeCloser(text)
    IN  \E i \in 1..Len(text) :
            /\ text[i] = ","
            /\ \E j \in last : i < j /\ OnlyWhitespaceBetween(text, i, j)

\* shorter is text without the characters at the indices in removed
IsWithout(shorter, text, removed) ==
    /\ Len(shorter) = Len(text) - Cardinality(removed)
    /\ \A i \in (1..Len(text)) \ removed :
            shorter[i - Cardinality({r \in removed : r < i})] = text[i]

\* nothing is left to remove from the sanitized text
NothingLeft ==
    /\ CommasBeforeCloser(sanitizedJsonStr.str) = {}
    /\ sanitizeJsonString(sanitizedJsonStr.str) = sanitizedJsonStr.str

\* the statement for every input
C23_Original == sanitizedJsonStr # JsNull => NothingLeft

\* C23: the output of sanitizeJsonString is its input without the commas
\* that are followed, ignoring intervening whitespace, by a closing brace
\* or bracket; when no comma of the input is followed, ignoring
\* whitespace, by another comma that stands before a closer, the output
\* holds no comma before a closer, and applying sanitizeJsonString to it
\* changes nothing.
C23_CommaRemoval ==
    sanitizedJsonStr # JsNull =>
        /\ IsWithout(sanitizedJsonStr.str, jsonStr.str, CommasBeforeCloser(jsonStr.str))
        /\ ~CommaBeforeComma(jsonStr.str) => NothingLeft

\* commas that stood before closers, with whitespace and a line break in
\* between, were removed from a text
C23_Witness ==
    /\ sanitizedJsonStr # JsNull
    /\ ~CommaBeforeComma(jsonStr.str)
    /\ Cardinality(CommasBeforeCloser(jsonStr.str)) >= 3
    /\ \E i \in CommasBeforeCloser(jsonStr.str) : jsonStr.str[i + 1] = " "
    /\ NothingLeft

----------------------------------------------------------------------------
(* Claims about the state of the export modal, under Spec *)

\* in the configured modal the error is set exactly in status error, and
\* the URL of the form only in status success
C24_Consistent ==
    (Mounted /\ isConfigured) =>
        /\ error # JsNull <=> status = "error"
        /\ formUrl # JsNull => status = "success"

\* status creating is entered only by the token callback of the sign-in
\* awaited, with the access token it delivered
C24_CreatingFromToken ==
    (status' = "creating" /\ status # "creating") =>
        /\ status = "authenticating"
        /\ run.pc = "token"
        /\ run'.pc = "create"
        /\ run'.calls = <<CreateCall(run.form, AccessToken)>>

\* a sign-in is started only when none is awaited and the library is loaded
C24_SignInWhenReady ==
    (run'.pc = "token" /\ run.pc # "token") =>
        /\ status # "authenticating"
        /\ isGsiLoaded
        /\ status' = "authenticating"

\* C24: in every reachable state of the configured (Mode A) modal, error
\* is non-null exactly when status is 'error', formUrl is set only when
\* status is 'success', status 'creating' is entered only from a token
\* callback that delivered an access token, and a sign-in cannot be started
\* while status is 'authenticating' or before the sign-in library has
\* loaded.
C24_ModalConsistent ==
    /\ []C24_Consistent
    /\ [][C24_CreatingFromToken]_vars
    /\ [][C24_SignInWhenReady]_vars

\* the form is being created, past its first response, while an execution
\* of an earlier modal is still in flight
C24_Witness ==
    /\ Mounted
    /\ isConfigured
    /\ status = "creating"
    /\ error = JsNull
    /\ formUrl = JsNull
    /\ run.pc = "batch"
    /\ orphans # {}

----------------------------------------------------------------------------
(* Claims about the guard of handleGenerate, under SpecSession *)

\* handleGenerate is called with a text that is empty when trimmed
BlankSubmit == handleSubmit /\ Trim(inputText) = <<>>

\* such a call starts no request and runs nothing of generateFormFromText,
\* sets the message, and leaves the Form and isLoading as they are
C25_Guard ==
    BlankSubmit =>
        /\ generating' = generating
        /\ UNCHANGED genVars
        /\ appError' = Str(<<EmptyTextMessage>>)
        /\ UNCHANGED <<generatedForm, isLoading>>

\* C25: handleGenerate called with empty or whitespace-only text issues no
\* model call, sets the 'Please provide some text' error, and leaves
\* generatedForm and isLoading unchanged.
C25_EmptyInputGuard == [][C25_Guard]_vars

\* whitespace was submitted while the App held a Form: the message is set
\* and the Form still there
C25_Witness ==
    /\ inputText = <<" ">>
    /\ appError = Str(<<EmptyTextMessage>>)
    /\ generatedForm # JsNull
    /\ ~isLoading
    /\ generating = 0

----------------------------------------------------------------------------
(* Claims about items of an unrecognised type, under SpecMapper *)

\* Mode A: the batch holds one creation request per item of the six types
\* and none for the others, and the platform ends with those items in the
\* Form's relative order
C26_NoRequest ==
    mRequests # <<>> =>
        LET known   == KnownItems(mForm)
            created == PlatformApply(mRequests, <<>>)
        IN  /\ Len(CreateRequests(mRequests)) = Len(known)
            /\ Len(created) = Len(known)
            /\ \A i \in 1..Len(known) :
                    created[i] = mapItemToApiRequest(known[i]).createItem.item

\* Mode B: the script holds one construction statement per item of the six
\* types, in the Form's relative order, and none for the others
C26_NoConstruction ==
    mScript # <<>> =>
        LET known == KnownItems(mForm)
        IN  SelectSeq(mScript, IsConstructor)
                = [i \in 1..Len(known) |-> C10_Constructor(known[i].type)]

UnsupportedComment == "  // Unsupported item type: "

\* what ends the text of an item in the script: the separator of the join,
\* or the text that closes the script
EndsItem(script, token) == token = "\n\n" \/ token = script[Len(script)]

\* Mode B: what the script holds for an item of another type is a comment,
\* that is, one line: no line break stands between the start of the comment
\* and the end of the item's text
C26_OnlyComment ==
    mScript # <<>> =>
        \A p \in 1..Len(mScript) :
            mScript[p] = UnsupportedComment =>
                \A q \in (p + 1)..Len(mScript) :
                    mScript[q] = "\n" =>
                        \E k \in (p + 1)..(q - 1) : EndsItem(mScript, mScript[k])

\* C26: for an item whose type is not one of the six, Mode A emits no
\* creation request and Mode B emits only a comment and no construction
\* statement, and every other item of the Form is still exported in its
\* original relative order.
C26_UnknownTypeItems == C26_NoRequest /\ C26_NoConstruction /\ C26_OnlyComment

\* both outputs were made for a Form with an item of another type between
\* two items of the six types
C26_Reached ==
    /\ mRequests # <<>>
    /\ mScript # <<>>
    /\ Len(mForm.items) = 3
    /\ mForm.items[1].type \in ItemType
    /\ mForm.items[2].type = UnknownType
    /\ mForm.items[3].type \in ItemType
    /\ mForm.items[1].type # mForm.items[3].type

====
